---- MODULE Spec2Model ----
(***************************************************************************)
(* A model of doi-checker: the URL validator and search fallback of        *)
(* src/doi_checker.py, and the two hosts that drive it (main() of          *)
(* src/doi_checker.py and process_in_background() of src/app.py).          *)
(*                                                                         *)
(* Python values are modelled as follows.  A str is a TLA+ string, a list  *)
(* a sequence, a dict a record (the empty dict {} is the record with no    *)
(* field, << >>).  An Optional value is None == << >> or, for Optional     *)
(* strings, the one-element sequence << s >>.                              *)
(***************************************************************************)
EXTENDS Integers, Sequences, FiniteSets, TLC

VARIABLES
    host,           \* who drives the validator: "api", "main" or "app"
    pc,             \* position of the single thread of control
    doc,            \* the document being processed by main / process_in_background
    enable_search,  \* URLValidator.enable_search
    delay,          \* URLValidator.delay
    no_validate,    \* args.no_validate of main
    refs,           \* the References (extractor.references)
    cur,            \* index in refs of the Reference handed to check_reference
    results,        \* check_reference: the local dict `results`
    idx,            \* check_reference: position of the `for url in ref.urls` loop
    query,          \* search_reference_online: the local `query`
    found,          \* search_reference_online: the local `search_results`
    match_scores,   \* search_reference_online: the local `match_scores`
    sr,             \* value returned by search_reference_online, << >> before it returns
    inflight,       \* number of HTTP requests issued and not yet answered
    rested,         \* length of the last time.sleep completed since the last answer
    gets,           \* URLs requested by session.get during the current call, in order
    probes,         \* what the network answered during the current call, in order
    local_response, \* check_reference: the local `response` while its page is matched
    posts,          \* number of session.post requests of the current call
    netcalls,       \* number of HTTP requests issued since the start
    calls,          \* number of check_reference calls since the start
    status,         \* processing_status[job_id] of app.py, << >> when absent
    exit_code,      \* exit status of main, << >> while it runs
    reports,        \* the report files written so far
    arg_refs_text,  \* parse_references: the section text it is given
    split_refs,     \* parse_references: the local list `split_refs`
    local_references, \* parse_references: the local list `references`
    pattern_i,      \* parse_references: position of `for pattern in ref_patterns`
    entry_i,        \* parse_references: position of `for ref_text in split_refs`
    grammar,        \* the pattern that filled split_refs: 1..3, 4 for the lines, 0 before
    self_references,\* extractor.references
    parsed,         \* the lists parse_references has returned, in order
    log_queues,     \* app.py: the dict log_queues, job id -> Queue object
    processing_status, \* app.py: the dict processing_status, job id -> record
    queues,         \* the messages held by each Queue object
    sys_stdout,     \* sys.stdout of the process
    old_stdout,     \* process_in_background: the local old_stdout of each worker
    log_queue,      \* process_in_background: the local log_queue of each worker
    worker_pc,      \* position of each worker thread
    sent,           \* number of progress messages each worker has produced
    stream_pc,      \* position of each generate() of stream_logs
    stream_queue,   \* generate: the local log_queue of each stream
    emitted,        \* the events each stream has sent to its client, in order
    console         \* the text written to the stream installed at start-up

vars == << host, pc, doc, enable_search, delay, no_validate, refs, cur, results,
           idx, query, found, match_scores, sr, inflight, rested, gets, probes,
           local_response, posts, netcalls, calls, status, exit_code, reports, arg_refs_text,
           split_refs, local_references,
           pattern_i, entry_i, grammar, self_references,
           parsed, log_queues, processing_status, queues, sys_stdout, old_stdout,
           log_queue, worker_pc, sent, stream_pc, stream_queue, emitted, console >>

None == << >>
EmptyDict == << >>

Min(a, b) == IF a < b THEN a ELSE b

(***************************************************************************)
(* Python string primitives used by the validator.                         *)
(***************************************************************************)
Upper26 == << "A","B","C","D","E","F","G","H","I","J","K","L","M",
              "N","O","P","Q","R","S","T","U","V","W","X","Y","Z" >>
Lower26 == << "a","b","c","d","e","f","g","h","i","j","k","l","m",
              "n","o","p","q","r","s","t","u","v","w","x","y","z" >>

CharAt(s, i) == SubSeq(s, i, i)

LowerChar(c) ==
    IF \E k \in 1..26 : Upper26[k] = c
    THEN Lower26[CHOOSE k \in 1..26 : Upper26[k] = c]
    ELSE c

RECURSIVE lower(_)
lower(s) == IF Len(s) <= 1 THEN LowerChar(s)
            ELSE lower(SubSeq(s, 1, Len(s) \div 2))
                 \o lower(SubSeq(s, Len(s) \div 2 + 1, Len(s)))

\* needle in hay
Contains(hay, needle) ==
    \E i \in 1..(Len(hay) - Len(needle) + 1) :
        SubSeq(hay, i, i + Len(needle) - 1) = needle

IsSpace(c) == c \in {" ", "\t", "\n"}

RECURSIVE lstrip(_)
lstrip(s) == IF s # "" /\ IsSpace(CharAt(s, 1))
             THEN lstrip(SubSeq(s, 2, Len(s))) ELSE s

RECURSIVE rstrip(_)
rstrip(s) == IF s # "" /\ IsSpace(CharAt(s, Len(s)))
             THEN rstrip(SubSeq(s, 1, Len(s) - 1)) ELSE s

strip(s) == rstrip(lstrip(s))

\* s.split(',')[0]
BeforeComma(s) ==
    IF Contains(s, ",")
    THEN SubSeq(s, 1, (CHOOSE i \in 1..Len(s) :
                          /\ CharAt(s, i) = ","
                          /\ \A j \in 1..(i - 1) : CharAt(s, j) # ",") - 1)
    ELSE s

\* s.split()[0], for s holding at least one non-blank character
FirstToken(s) ==
    LET t == lstrip(s)
        stop == IF \E i \in 1..Len(t) : IsSpace(CharAt(t, i))
                THEN (CHOOSE i \in 1..Len(t) :
                          /\ IsSpace(CharAt(t, i))
                          /\ \A j \in 1..(i - 1) : ~IsSpace(CharAt(t, j))) - 1
                ELSE Len(t)
    IN  SubSeq(t, 1, stop)

\* ' '.join(parts)
RECURSIVE join(_)
join(parts) == IF parts = << >> THEN ""
               ELSE IF Len(parts) = 1 THEN parts[1]
               ELSE parts[1] \o " " \o join(Tail(parts))

\* sum(scores)
RECURSIVE sum(_)
sum(scores) == IF scores = << >> THEN 0 ELSE Head(scores) + sum(Tail(scores))

(***************************************************************************)
(* The fuzzywuzzy collaborator.  Both functions return 100 on equal        *)
(* strings and partial_ratio returns 100 when the shorter string occurs in *)
(* the longer one; for the other pairs the library's answer is taken from  *)
(* a table keyed by the second argument.                                   *)
(***************************************************************************)
RatioTable(b) ==
    CASE b = "study"                  -> 80
      [] b = "study of x"             -> 80
      [] b = "something else"         -> 40
      [] b = "a survey of deep nets by j. smith" -> 70
      [] b = "smith, john a."         -> 85
      [] b = "smith, joan a."         -> 85
      [] b = "j. smith"               -> 60
      [] OTHER                        -> 0

partial_ratio(a, b) ==
    IF a = "" \/ b = "" THEN 0
    ELSE IF Contains(b, a) \/ Contains(a, b) THEN 100
    ELSE RatioTable(b)

ratio(a, b) ==
    IF a = b THEN 100
    ELSE IF a = "" \/ b = "" THEN 0
    ELSE RatioTable(b)

(***************************************************************************)
(* Reference.__init__ and the fields the extractor fills in.               *)
(***************************************************************************)
Reference(in) ==
    [ authors           |-> in.authors,
      title             |-> in.title,
      year              |-> in.year,
      urls              |-> in.urls,
      is_accessible     |-> FALSE,
      url_check_results |-> EmptyDict,
      search_results    |-> None ]

\* truth value of an Optional[str]
HasStr(o) == o # None /\ o[1] # ""

(***************************************************************************)
(* URLValidator._check_content_match and _author_matches.                  *)
(***************************************************************************)
_author_matches(ref_author, found_author) ==
    ratio(lower(ref_author), lower(found_author)) > 80

\* last name of an author, as check_reference and the search scorer take it
LastName(author) ==
    IF Contains(author, ",") THEN strip(BeforeComma(author)) ELSE FirstToken(author)

\* for meta_author in meta_authors: for ref_author in ref.authors: ... break
RECURSIVE MetaAuthorMatches(_, _)
MetaAuthorMatches(meta_authors, authors) ==
    IF meta_authors = << >> THEN << >>
    ELSE LET author_name == Head(meta_authors)
             hit == { i \in 1..Len(authors) : _author_matches(authors[i], author_name) }
             first == CHOOSE i \in hit : \A j \in hit : i <= j
             here == IF hit = {} THEN << >>
                     ELSE << [reference |-> authors[first], found |-> author_name] >>
         IN  here \o MetaAuthorMatches(Tail(meta_authors), authors)

\* for author in ref.authors: if last_name.lower() in page_text.lower(): ...
RECURSIVE TextAuthorMatches(_, _)
TextAuthorMatches(authors, page_text) ==
    IF authors = << >> THEN << >>
    ELSE LET last_name == LastName(Head(authors))
             here == IF Contains(lower(page_text), lower(last_name))
                     THEN << [reference |-> Head(authors), found |-> last_name] >>
                     ELSE << >>
         IN  here \o TextAuthorMatches(Tail(authors), page_text)

\* a matcher without the try/except: the page is scored whatever its state
_check_content_match_unguarded(response, ref) ==
    LET page == response.content
        author_matches == TextAuthorMatches(ref.authors, page.text)
    IN  [title_match    |-> partial_ratio(lower(ref.title), lower(page.text)),
         authors_found  |-> Len(author_matches),
         author_matches |-> author_matches]

_check_content_match(response, ref) ==
    LET page == response.content
        zero == [title_match |-> 0, authors_found |-> 0, author_matches |-> << >>]
        title_match ==
            IF ref.title = "" THEN 0
            ELSE IF HasStr(page.citation_title)
                 THEN partial_ratio(lower(ref.title), lower(page.citation_title[1]))
                 ELSE partial_ratio(lower(ref.title), lower(page.text))
        author_matches ==
            IF ref.authors = << >> THEN << >>
            ELSE IF page.citation_author # << >>
                 THEN MetaAuthorMatches(page.citation_author, ref.authors)
                 ELSE TextAuthorMatches(ref.authors, page.text)
    IN  IF page.unparsable THEN zero
        ELSE [title_match    |-> title_match,
              authors_found  |-> Len(author_matches),
              author_matches |-> author_matches]

(***************************************************************************)
(* What the network can answer to session.get(url, ...).                   *)
(***************************************************************************)
Page(text, citation_title, citation_author) ==
    [unparsable |-> FALSE, text |-> text, citation_title |-> citation_title,
     citation_author |-> citation_author]

Response(status_code, url, content) ==
    [kind |-> "response", status_code |-> status_code, url |-> url, content |-> content]

MetaPage == Page("Deep Learning Survey - Journal", << "Deep Learning Survey" >>,
                 << "Smith, John A." >>)
TextPage == Page("A Survey of Deep Nets by J. Smith", None, << >>)
EmptyPage == Page("", None, << >>)
\* a page of two authors whose names both resemble "Smith, J. A."
TwoSmithsPage == Page("Deep Learning Survey - Journal", << "Deep Learning Survey" >>,
                      << "Smith, John A.", "Smith, Joan A." >>)
\* a body on which BeautifulSoup or get_text raises
BrokenPage ==
    [unparsable |-> TRUE, text |-> "Deep Learning Survey by Smith",
     citation_title |-> None, citation_author |-> << >>]

GetOutcomes(url) ==
    { Response(200, url, MetaPage),
      Response(204, url, EmptyPage),
      Response(200, url, BrokenPage),
      Response(200, url, TwoSmithsPage),
      Response(299, "https://publisher.example/final", TextPage),
      Response(300, url, EmptyPage),
      Response(404, url, TextPage),
      Response(500, url, EmptyPage),
      [kind |-> "ConnectTimeout"],
      [kind |-> "ReadTimeout"],
      [kind |-> "ConnectionError", text |-> "Connection refused"] }

\* except requests.exceptions.Timeout
IsTimeout(o) == o.kind \in {"ConnectTimeout", "ReadTimeout"}

\* a validator that takes 200 alone for success
IsSuccess_only200(status_code) == status_code = 200

\* 200 <= response.status_code < 300
IsSuccess(status_code) == 200 <= status_code /\ status_code < 300

EmptyResults ==
    [accessible_urls |-> << >>, inaccessible_urls |-> << >>, match_results |-> << >>]

\* a loop body without the `except RequestException` clause: the failure is lost
RecordOutcome_unhandled(res, url, o, ref) ==
    IF o.kind = "response"
    THEN IF IsSuccess(o.status_code)
         THEN [res EXCEPT !.accessible_urls = Append(@, url)]
         ELSE [res EXCEPT !.inaccessible_urls =
                   Append(@, [url |-> url, status_code |-> o.status_code,
                              reason |-> "HTTP " \o ToString(o.status_code)])]
    ELSE IF IsTimeout(o)
         THEN [res EXCEPT !.inaccessible_urls =
                   Append(@, [url |-> url, reason |-> "Timeout"])]
         ELSE res

\* a loop body that runs the content matcher on every response, whatever
\* its status
RecordOutcome_matchall(res, url, o, ref) ==
    IF o.kind = "response"
    THEN [res EXCEPT !.accessible_urls =
                         IF IsSuccess(o.status_code) THEN Append(@, url) ELSE @,
                     !.inaccessible_urls =
                         IF IsSuccess(o.status_code) THEN @
                         ELSE Append(@, [url |-> url, status_code |-> o.status_code,
                                         reason |-> "HTTP " \o ToString(o.status_code)]),
                     !.match_results =
                         Append(@, [title_match |-> 0, authors_found |-> 0,
                                    author_matches |-> << >>, url |-> url,
                                    final_url |-> o.url])]
    ELSE [res EXCEPT !.inaccessible_urls = Append(@, [url |-> url, reason |-> "Timeout"])]

(***************************************************************************)
(* The body of `for url in ref.urls` after the request has been answered   *)
(* by o: the value of `results` at the end of the iteration.               *)
(***************************************************************************)
RecordOutcome(res, url, o, ref) ==
    IF o.kind = "response"
    THEN IF IsSuccess(o.status_code)
         THEN LET m == _check_content_match(o, ref)
                  match_result ==
                      [title_match    |-> m.title_match,
                       authors_found  |-> m.authors_found,
                       author_matches |-> m.author_matches,
                       url            |-> url,
                       final_url      |-> o.url]
              IN  [res EXCEPT !.accessible_urls = Append(@, url),
                              !.match_results = Append(@, match_result)]
         ELSE [res EXCEPT !.inaccessible_urls =
                   Append(@, [url |-> url, status_code |-> o.status_code,
                              reason |-> "HTTP " \o ToString(o.status_code)])]
    ELSE IF IsTimeout(o)
         THEN [res EXCEPT !.inaccessible_urls =
                   Append(@, [url |-> url, reason |-> "Timeout"])]
         ELSE [res EXCEPT !.inaccessible_urls =
                   Append(@, [url |-> url, reason |-> o.text])]

\* ref.is_accessible = True, on the 2xx branch only
MarkAccessible(ref, o) ==
    IF o.kind = "response" /\ IsSuccess(o.status_code)
    THEN [ref EXCEPT !.is_accessible = TRUE]
    ELSE ref

(***************************************************************************)
(* URLValidator.search_reference_online, _perform_search and               *)
(* _check_search_result_match.                                             *)
(***************************************************************************)
TitleLimit == 100
ResultLimit == 5
AuthorsChecked == 3
AuthorBonus == 70
YearBonus == 50

\* s[:n]
Prefix(s, n) == SubSeq(s, 1, Min(n, Len(s)))

\* query parts whose title is not cut
QueryParts_untruncated(ref) ==
    (IF ref.title # "" THEN << ref.title >> ELSE << >>)
    \o (IF ref.authors # << >> THEN << ref.authors[1] >> ELSE << >>)
    \o (IF HasStr(ref.year) THEN << ref.year[1] >> ELSE << >>)

\* query_parts, as built from the reference
QueryParts(ref) ==
    (IF ref.title # "" THEN << Prefix(ref.title, TitleLimit) >> ELSE << >>)
    \o (IF ref.authors # << >> THEN << ref.authors[1] >> ELSE << >>)
    \o (IF HasStr(ref.year) THEN << ref.year[1] >> ELSE << >>)

\* one <div class="result"> of the answer page
Div(has_a, title, url, snippet) ==
    [has_a |-> has_a, title |-> title, url |-> url, snippet |-> snippet]

\* the loop over soup.find_all('div', class_='result')[:5]
RECURSIVE ParseDivs(_)
ParseDivs(divs) ==
    IF divs = << >> THEN << >>
    ELSE LET d == Head(divs)
             here == IF d.has_a
                     THEN << [title |-> d.title, url |-> d.url, snippet |-> d.snippet] >>
                     ELSE << >>
         IN  here \o ParseDivs(Tail(divs))

\* the list _perform_search returns when session.post is answered by o
_perform_search(o) ==
    IF o.kind # "response" THEN << >>
    ELSE IF o.status_code # 200 THEN << >>
    ELSE ParseDivs(Prefix(o.content, ResultLimit))

\* author_found of _check_search_result_match
AuthorFound(authors, snippet) ==
    \E i \in 1..Min(AuthorsChecked, Len(authors)) :
        Contains(lower(snippet), lower(LastName(authors[i])))

\* the list `scores` of _check_search_result_match
Scores(search_result, ref) ==
    (IF ref.title # "" /\ search_result.title # ""
     THEN << partial_ratio(lower(ref.title), lower(search_result.title)) * 2 >>
     ELSE << >>)
    \o (IF ref.title # "" /\ search_result.snippet # ""
        THEN << partial_ratio(lower(ref.title), lower(search_result.snippet)) >>
        ELSE << >>)
    \o (IF ref.authors # << >> /\ search_result.snippet # ""
           /\ AuthorFound(ref.authors, search_result.snippet)
        THEN << AuthorBonus >> ELSE << >>)
    \o (IF HasStr(ref.year) /\ search_result.snippet # ""
           /\ Contains(search_result.snippet, ref.year[1])
        THEN << YearBonus >> ELSE << >>)

\* a scorer that caps the mean at 100
_check_search_result_match_clamped(search_result, ref) ==
    LET scores == Scores(search_result, ref)
    IN  IF scores = << >> THEN 0 ELSE Min(100, sum(scores) \div Len(scores))

\* int(sum(scores) / len(scores)) if scores else 0
_check_search_result_match(search_result, ref) ==
    LET scores == Scores(search_result, ref)
    IN  IF scores = << >> THEN 0 ELSE sum(scores) \div Len(scores)

\* the dict appended to match_scores for the result of rank i
ScoredResult(i, result, ref) ==
    [rank |-> i, url |-> result.url, title |-> result.title,
     snippet |-> result.snippet,
     match_score |-> _check_search_result_match(result, ref)]

\* a selection that keeps the last of the maximal elements
BestMatch_last(scored) ==
    IF scored = << >> THEN None
    ELSE scored[CHOOSE i \in 1..Len(scored) :
                   /\ \A j \in 1..Len(scored) :
                          scored[j].match_score <= scored[i].match_score
                   /\ \A j \in (i + 1)..Len(scored) :
                          scored[j].match_score < scored[i].match_score]

\* max(match_scores, key=lambda x: x['match_score']): the first maximal element
BestMatch(scored) ==
    IF scored = << >> THEN None
    ELSE scored[CHOOSE i \in 1..Len(scored) :
                   /\ \A j \in 1..Len(scored) :
                          scored[j].match_score <= scored[i].match_score
                   /\ \A j \in 1..(i - 1) :
                          scored[j].match_score < scored[i].match_score]

\* a fallback that also runs for a Reference whose URLs were probed
SearchWanted_whenEnabled(ref, enabled) == enabled

\* if not ref.urls and self.enable_search
SearchWanted(ref, enabled) == ref.urls = << >> /\ enabled

\* a sleep that returns at once
time_sleep_none(seconds) == 0

\* time.sleep(seconds): the time the caller has rested when it returns
time_sleep(seconds) == seconds

(***************************************************************************)
(* What the search provider can answer to session.post(search_url, ...).   *)
(***************************************************************************)
D1 == Div(TRUE, "A Study of X", "https://a.example/1", "")
D2 == Div(TRUE, "Study", "https://a.example/2", "something else")
D3 == Div(TRUE, "", "https://a.example/3", "by smith in 2020")
D4 == Div(TRUE, "Study of X", "https://a.example/4", "Smith et al.")
D5 == Div(TRUE, "A Study of X", "https://a.example/5", "A Study of X by wu")
D6 == Div(FALSE, "", "", "")
D7 == Div(TRUE, "Unrelated", "https://a.example/7", "nothing")

SearchPages ==
    { << >>, << D2 >>, << D4 >>, << D3, D5 >>, << D6, D2 >>, << D6 >>,
      << D1, D2, D3, D4, D7, D5 >>, << D7, D2, D1, D2, D4, D5 >> }

PostOutcomes ==
    { [kind |-> "ReadTimeout"],
      [kind |-> "ConnectionError", text |-> "Connection refused"],
      Response(503, "https://html.duckduckgo.com/html/", << >>) }
    \cup { Response(200, "https://html.duckduckgo.com/html/", p) : p \in SearchPages }

(***************************************************************************)
(* URLValidator.check_reference, one step at a time.                       *)
(***************************************************************************)
CurRef == refs[cur]

cfgvars == << host, doc, enable_search, delay, no_validate >>
appvars == << log_queues, processing_status, queues, sys_stdout, old_stdout, log_queue,
             worker_pc, sent, stream_pc, stream_queue, emitted, console >>
jobvars == << status, exit_code, reports >>
searchvars == << query, found, match_scores, sr >>
netvars == << inflight, rested, netcalls, local_response >>
parservars == << arg_refs_text, split_refs, local_references, pattern_i, entry_i, grammar,
                 self_references, parsed >>

InitParser(texts) ==
    /\ arg_refs_text \in texts
    /\ split_refs = << >>
    /\ local_references = << >>
    /\ pattern_i = 1
    /\ entry_i = 1
    /\ grammar = 0
    /\ self_references = << >>
    /\ parsed = << >>

\* results = {...}; the locals of the call start afresh
check_reference_enter ==
    /\ pc = "call"
    /\ results' = EmptyResults
    /\ idx' = 1
    /\ gets' = << >>
    /\ probes' = << >>
    /\ posts' = 0
    /\ query' = ""
    /\ found' = << >>
    /\ match_scores' = << >>
    /\ sr' = << >>
    /\ pc' = "for_url"
    /\ UNCHANGED << parservars, cfgvars, appvars, jobvars, netvars, refs, cur, calls >>

\* for url in ref.urls: print(...); time.sleep(self.delay)
url_sleep ==
    /\ pc = "for_url"
    /\ idx <= Len(CurRef.urls)
    /\ rested' = time_sleep(delay)
    /\ pc' = "get"
    /\ UNCHANGED << local_response, parservars, cfgvars, appvars, jobvars, searchvars, refs, cur, results, idx,
                    inflight, netcalls, gets, probes, posts, calls >>

\* self.session.get(url, ...) is issued
session_get ==
    /\ pc = "get"
    /\ inflight' = inflight + 1
    /\ netcalls' = netcalls + 1
    /\ gets' = Append(gets, CurRef.urls[idx])
    /\ pc' = "get_wait"
    /\ UNCHANGED << local_response, parservars, cfgvars, appvars, jobvars, searchvars, refs, cur, results, idx,
                    rested, probes, posts, calls >>

\* the request is answered (a response or an exception): a 2xx response is
\* put on accessible_urls and kept for the content matcher, any other answer
\* is classified and ends the iteration
get_answer ==
    /\ pc = "get_wait"
    /\ \E o \in GetOutcomes(CurRef.urls[idx]) :
          /\ refs' = [refs EXCEPT ![cur] = MarkAccessible(@, o)]
          /\ IF o.kind = "response" /\ IsSuccess(o.status_code)
             THEN /\ results' = [results EXCEPT !.accessible_urls =
                                     RecordOutcome(results, CurRef.urls[idx], o, CurRef).accessible_urls]
                  /\ local_response' = << o >>
                  /\ pc' = "match"
                  /\ UNCHANGED << probes, idx >>
             ELSE /\ results' = RecordOutcome(results, CurRef.urls[idx], o, CurRef)
                  /\ probes' = Append(probes, o)
                  /\ idx' = idx + 1
                  /\ pc' = "for_url"
                  /\ UNCHANGED local_response
    /\ inflight' = inflight - 1
    /\ rested' = 0
    /\ UNCHANGED << parservars, cfgvars, appvars, jobvars, searchvars, cur, netcalls, gets, posts, calls >>

\* match_result = self._check_content_match(response, ref); ...;
\* results['match_results'].append(match_result)
content_match ==
    /\ pc = "match"
    /\ results' = [results EXCEPT !.match_results =
                      RecordOutcome(results, CurRef.urls[idx], local_response[1], CurRef).match_results]
    /\ probes' = Append(probes, local_response[1])
    /\ local_response' = None
    /\ idx' = idx + 1
    /\ pc' = "for_url"
    /\ UNCHANGED << parservars, cfgvars, appvars, jobvars, searchvars, refs, cur, inflight, rested,
                    netcalls, gets, posts, calls >>

\* the loop is over: if not ref.urls and self.enable_search
urls_done ==
    /\ pc = "for_url"
    /\ idx > Len(CurRef.urls)
    /\ pc' = IF SearchWanted(CurRef, enable_search) THEN "search" ELSE "store"
    /\ UNCHANGED << parservars, cfgvars, appvars, jobvars, searchvars, netvars, refs, cur, results,
                    idx, gets, probes, posts, calls >>

\* search_reference_online up to `query = ' '.join(query_parts)`
search_enter ==
    /\ pc = "search"
    /\ IF ~enable_search
       THEN /\ sr' = [search_performed |-> FALSE]
            /\ pc' = "set_search"
            /\ UNCHANGED query
       ELSE IF QueryParts(CurRef) = << >>
       THEN /\ sr' = [search_performed |-> FALSE, reason |-> "insufficient_info"]
            /\ pc' = "set_search"
            /\ UNCHANGED query
       ELSE /\ query' = join(QueryParts(CurRef))
            /\ pc' = "search_sleep"
            /\ UNCHANGED sr
    /\ UNCHANGED << parservars, cfgvars, appvars, jobvars, netvars, refs, cur, results, idx, found,
                    match_scores, gets, probes, posts, calls >>

\* time.sleep(self.delay) before _perform_search
search_sleep ==
    /\ pc = "search_sleep"
    /\ rested' = time_sleep(delay)
    /\ pc' = "post"
    /\ UNCHANGED << local_response, parservars, cfgvars, appvars, jobvars, searchvars, refs, cur, results, idx,
                    inflight, netcalls, gets, probes, posts, calls >>

\* self.session.post(search_url, ...) is issued
session_post ==
    /\ pc = "post"
    /\ inflight' = inflight + 1
    /\ netcalls' = netcalls + 1
    /\ posts' = posts + 1
    /\ pc' = "post_wait"
    /\ UNCHANGED << local_response, parservars, cfgvars, appvars, jobvars, searchvars, refs, cur, results, idx,
                    rested, gets, probes, calls >>

\* the search request is answered; _perform_search returns; `if not search_results`
post_answer ==
    /\ pc = "post_wait"
    /\ \E o \in PostOutcomes :
          /\ probes' = Append(probes, o)
          /\ found' = _perform_search(o)
          /\ IF _perform_search(o) = << >>
             THEN /\ sr' = [search_performed |-> TRUE, query |-> query,
                            results |-> << >>, best_match |-> None]
                  /\ pc' = "set_search"
             ELSE /\ pc' = "score"
                  /\ UNCHANGED sr
    /\ inflight' = inflight - 1
    /\ rested' = 0
    /\ UNCHANGED << local_response, parservars, cfgvars, appvars, jobvars, refs, cur, results, idx, query,
                    match_scores, netcalls, gets, posts, calls >>

\* one iteration of `for i, result in enumerate(search_results[:5], 1)`
score_result ==
    /\ pc = "score"
    /\ Len(match_scores) < Len(Prefix(found, ResultLimit))
    /\ LET i == Len(match_scores) + 1
       IN  match_scores' = Append(match_scores, ScoredResult(i, found[i], CurRef))
    /\ rested' = time_sleep(delay)
    /\ UNCHANGED << local_response, parservars, cfgvars, appvars, jobvars, refs, cur, results, idx, query, found, sr,
                    inflight, netcalls, gets, probes, posts, calls, pc >>

\* best_match = max(...); the dict with the scored results is returned
score_done ==
    /\ pc = "score"
    /\ Len(match_scores) = Len(Prefix(found, ResultLimit))
    /\ sr' = [search_performed |-> TRUE, query |-> query,
              results |-> match_scores, best_match |-> BestMatch(match_scores)]
    /\ pc' = "set_search"
    /\ UNCHANGED << parservars, cfgvars, appvars, jobvars, netvars, refs, cur, results, idx, query,
                    found, match_scores, gets, probes, posts, calls >>

\* ref.search_results = search_results
store_search ==
    /\ pc = "set_search"
    /\ refs' = [refs EXCEPT ![cur].search_results = sr]
    /\ pc' = "store"
    /\ UNCHANGED << parservars, cfgvars, appvars, jobvars, searchvars, netvars, cur, results, idx,
                    gets, probes, posts, calls >>

\* ref.url_check_results = results; return results
check_return ==
    /\ pc = "store"
    /\ refs' = [refs EXCEPT ![cur].url_check_results = results]
    /\ pc' = "returned"
    /\ UNCHANGED << parservars, cfgvars, appvars, jobvars, searchvars, netvars, cur, results, idx,
                    gets, probes, posts, calls >>

CheckReference ==
    \/ check_reference_enter \/ url_sleep \/ session_get \/ get_answer
    \/ content_match
    \/ urls_done \/ search_enter \/ search_sleep \/ session_post
    \/ post_answer \/ score_result \/ score_done \/ store_search
    \/ check_return

(***************************************************************************)
(* The References handed to the validator.  The extractor appends the      *)
(* DOI URL to an empty list and every other URL only when it is not in the *)
(* list yet, so urls holds no URL twice.                                   *)
(***************************************************************************)
MaxCalls == 2
MaxRefs == 2
MaxJobUrls == 2

UrlPool == { "https://doi.org/10.1000/abc123", "https://example.com/paper" }

UrlLists ==
    { << >> } \cup { << u >> : u \in UrlPool }
    \cup { << p[1], p[2] >> : p \in { q \in UrlPool \X UrlPool : q[1] # q[2] } }

LongTitle ==
    "Deep Learning Survey of Methods " \o "Deep Learning Survey of Methods "
    \o "Deep Learning Survey of Methods " \o "Deep Learning Survey of Methods"

RefIn(title, authors, year, urls) ==
    [title |-> title, authors |-> authors, year |-> year, urls |-> urls]

ApiRefs ==
    { RefIn("", << >>, None, << >>),
      RefIn("Deep Learning Survey", << >>, None, << >>),
      RefIn("Deep Learning Survey", << "Smith, J. A." >>, << "2020" >>, << >>) }
    \cup { RefIn("Deep Learning Survey", << "Smith, J. A." >>, << "2020" >>, l) :
              l \in UrlLists \ { << >> } }

SearchRefs ==
    { RefIn(t, a, y, << >>) :
        t \in { "", "Deep Learning Survey", "A Study of X", LongTitle },
        a \in { << >>, << "Smith, J." >>, << "Lee K", "Wu, X.", "Kim, Y.", "Smith, J." >> },
        y \in { None, << "2020" >>, << "20" >> } }

JobRefs ==
    { RefIn("", << >>, None, << >>),
      RefIn("Deep Learning Survey", << "Smith, J. A." >>, << "2020" >>, << >>),
      RefIn("Deep Learning Survey", << "Smith, J. A." >>, << "2020" >>,
            << "https://example.com/paper" >>),
      RefIn("", << >>, << "20" >>,
            << "https://doi.org/10.1000/abc123", "https://example.com/paper" >>) }

RECURSIVE UrlCount(_)
UrlCount(rs) == IF rs = << >> THEN 0 ELSE Len(Head(rs).urls) + UrlCount(Tail(rs))

RECURSIVE SeqsUpTo(_, _)
SeqsUpTo(S, n) ==
    IF n = 0 THEN { << >> }
    ELSE SeqsUpTo(S, n - 1)
         \cup { Append(q, x) : q \in { r \in SeqsUpTo(S, n - 1) : Len(r) = n - 1 }, x \in S }

\* a document: the text find_references_section returns for it and the entries
\* parse_references keeps of that text
JobDocs ==
    { [refs_text |-> "", references |-> << >>],
      [refs_text |-> "[1] too short", references |-> << >>] }
    \cup { [refs_text |-> "[1] ...", references |-> q] :
              q \in { r \in SeqsUpTo(JobRefs, MaxRefs) :
                         r # << >> /\ UrlCount(r) <= MaxJobUrls } }

NoDoc == [refs_text |-> "", references |-> << >>]

Delays == { 1, 2 }

(***************************************************************************)
(* The web front end of app.py: the jobs it is asked to process, the Queue *)
(* objects its threads create and the streams text is printed to.          *)
(***************************************************************************)
Jobs == { "a", "b" }

\* the stream installed as sys.stdout when the process starts
Console == [kind |-> "console"]

\* LogCapture(log_queue)
LogCapture(q) == [kind |-> "LogCapture", log_queue |-> q]

\* queue.Queue(): the object a thread creates for a job
NewQueue(job_id, thread) == [job |-> job_id, by |-> thread]

\* the jobs whose log stream a client opens
Followed == { "a" }

QueueObjects == { NewQueue(j, t) : j \in Jobs, t \in { "worker", "stream" } }

\* log_queues = {}; processing_status = {}; no request has come in
AppIdle ==
    /\ log_queues = << >>
    /\ processing_status = << >>
    /\ queues = [q \in QueueObjects |-> << >>]
    /\ sys_stdout = Console
    /\ old_stdout = [j \in Jobs |-> None]
    /\ log_queue = [j \in Jobs |-> None]
    /\ worker_pc = [j \in Jobs |-> "idle"]
    /\ sent = [j \in Jobs |-> 0]
    /\ stream_pc = [j \in Jobs |-> "idle"]
    /\ stream_queue = [j \in Jobs |-> None]
    /\ emitted = [j \in Jobs |-> << >>]
    /\ console = {}

InitLocals ==
    /\ AppIdle
    /\ cur = 1
    /\ results = EmptyResults
    /\ idx = 1
    /\ query = ""
    /\ found = << >>
    /\ match_scores = << >>
    /\ sr = << >>
    /\ inflight = 0
    /\ rested = 0
    /\ gets = << >>
    /\ probes = << >>
    /\ local_response = None
    /\ posts = 0
    /\ netcalls = 0
    /\ calls = 0
    /\ exit_code = << >>
    /\ reports = {}

(***************************************************************************)
(* A caller of the library: a validator and one Reference, on which        *)
(* check_reference is called again and again.                              *)
(***************************************************************************)
InitApi(inputs, searches, delays) ==
    /\ host = "api"
    /\ pc = "idle"
    /\ doc = NoDoc
    /\ enable_search \in searches
    /\ delay \in delays
    /\ no_validate = FALSE
    /\ refs \in { << Reference(r) >> : r \in inputs }
    /\ status = << >>
    /\ InitLocals
    /\ InitParser({ "" })

Init == InitApi(ApiRefs, BOOLEAN, { 1 })

api_call ==
    /\ host = "api"
    /\ pc \in { "idle", "returned" }
    /\ calls < MaxCalls
    /\ calls' = calls + 1
    /\ pc' = "call"
    /\ UNCHANGED << parservars, cfgvars, appvars, jobvars, searchvars, netvars, refs, cur, results,
                    idx, gets, probes, posts >>

Next == api_call \/ CheckReference

Spec == Init /\ [][Next]_vars

(***************************************************************************)
(* The search fallback alone: References without URLs, search enabled.     *)
(***************************************************************************)
InitSearch == InitApi(SearchRefs, { TRUE }, { 1 })

NextSearch ==
    \/ api_call \/ check_reference_enter \/ urls_done \/ search_enter
    \/ search_sleep \/ session_post \/ post_answer \/ score_result
    \/ score_done \/ store_search \/ check_return

SpecSearch == InitSearch /\ [][NextSearch]_vars

(***************************************************************************)
(* The two hosts: main() of doi_checker.py and process_in_background() of  *)
(* app.py.  Both find the references section, parse it, hand every         *)
(* Reference that has URLs (or any Reference, when search is enabled) to   *)
(* check_reference, and write the reports.                                 *)
(***************************************************************************)
NoSectionError == "Could not find references section in PDF"
NoReferencesError == "No references were extracted"

\* if not refs_text
SectionMissing(refs_text) == refs_text = ""

\* a host that does not test the parse result
NothingExtracted_never(references) == FALSE

\* if not references
NothingExtracted(references) == references = << >>

\* the branch taken for a Reference in the validation loop
NeedsCheck(ref, enabled) == ref.urls # << >> \/ enabled

\* an error leaf that returns without recording anything
JobFails_silent(message) ==
    IF host = "main"
    THEN /\ exit_code' = << 1 >>
         /\ pc' = "exited"
         /\ UNCHANGED status
    ELSE /\ pc' = "finally"
         /\ UNCHANGED << status, exit_code >>

\* the error leaves of both hosts: sys.exit(1), or the error status and return
JobFails(message) ==
    IF host = "main"
    THEN /\ exit_code' = << 1 >>
         /\ pc' = "exited"
         /\ UNCHANGED status
    ELSE /\ status' = [complete |-> TRUE, error |-> message]
         /\ pc' = "finally"
         /\ UNCHANGED exit_code

InitJob ==
    /\ host \in { "main", "app" }
    /\ pc = "find"
    /\ doc \in JobDocs
    /\ enable_search \in BOOLEAN
    /\ delay \in Delays
    /\ no_validate \in (IF host = "main" THEN BOOLEAN ELSE { FALSE })
    /\ refs = << >>
    /\ status = (IF host = "app" THEN [complete |-> FALSE, started |-> TRUE] ELSE << >>)
    /\ InitLocals
    /\ InitParser({ "" })

\* refs_text = extractor.find_references_section(); if not refs_text: ...
find_section ==
    /\ pc = "find"
    /\ IF SectionMissing(doc.refs_text)
       THEN JobFails(NoSectionError)
       ELSE /\ pc' = "parse"
            /\ UNCHANGED << status, exit_code >>
    /\ UNCHANGED << parservars, cfgvars, appvars, searchvars, netvars, refs, cur, results, idx,
                    gets, probes, posts, calls, reports >>

\* references = extractor.parse_references(refs_text); if not references: ...
parse ==
    /\ pc = "parse"
    /\ LET references == [i \in 1..Len(doc.references) |-> Reference(doc.references[i])]
       IN  IF NothingExtracted(references)
           THEN /\ JobFails(NoReferencesError)
                /\ UNCHANGED refs
           ELSE /\ refs' = references
                /\ pc' = IF no_validate THEN "report" ELSE "loop"
                /\ UNCHANGED << status, exit_code >>
    /\ cur' = 1
    /\ UNCHANGED << parservars, cfgvars, appvars, searchvars, netvars, results, idx, gets, probes,
                    posts, calls, reports >>

\* if ref.urls: check_reference(ref) / elif enable_search: check_reference(ref)
loop_check ==
    /\ pc = "loop"
    /\ cur <= Len(refs)
    /\ NeedsCheck(CurRef, enable_search)
    /\ calls' = calls + 1
    /\ pc' = "call"
    /\ UNCHANGED << parservars, cfgvars, appvars, jobvars, searchvars, netvars, refs, cur, results,
                    idx, gets, probes, posts >>

\* else: "No URLs found in reference"
loop_skip ==
    /\ pc = "loop"
    /\ cur <= Len(refs)
    /\ ~NeedsCheck(CurRef, enable_search)
    /\ cur' = cur + 1
    /\ UNCHANGED << parservars, cfgvars, appvars, jobvars, searchvars, netvars, refs, results, idx,
                    gets, probes, posts, calls, pc >>

\* check_reference has returned: the loop goes on with the next Reference
loop_next ==
    /\ host # "api"
    /\ pc = "returned"
    /\ cur' = cur + 1
    /\ pc' = "loop"
    /\ UNCHANGED << parservars, cfgvars, appvars, jobvars, searchvars, netvars, refs, results, idx,
                    gets, probes, posts, calls >>

\* the loop is over
loop_done ==
    /\ pc = "loop"
    /\ cur > Len(refs)
    /\ pc' = "report"
    /\ UNCHANGED << parservars, cfgvars, appvars, jobvars, searchvars, netvars, refs, cur, results,
                    idx, gets, probes, posts, calls >>

Searched(ref) ==
    /\ ref.search_results # None
    /\ "search_performed" \in DOMAIN ref.search_results
    /\ ref.search_results.search_performed

\* the summary process_in_background stores with the success status
Summary ==
    LET with_urls == Cardinality({ i \in 1..Len(refs) : refs[i].urls # << >> })
        accessible == Cardinality({ i \in 1..Len(refs) : refs[i].is_accessible })
        searched == Cardinality({ i \in 1..Len(refs) : Searched(refs[i]) })
    IN  [total_references |-> Len(refs),
         with_urls        |-> with_urls,
         accessible       |-> accessible,
         inaccessible     |-> with_urls - accessible,
         searched         |-> searched]

\* the reports are written; process_in_background records the success
report ==
    /\ pc = "report"
    /\ IF host = "main"
       THEN /\ reports' = { "references.json", "references.txt" }
            /\ exit_code' = << 0 >>
            /\ pc' = "exited"
            /\ UNCHANGED status
       ELSE /\ reports' = { "references.json", "references.txt", "references.html" }
            /\ status' = [complete |-> TRUE, success |-> TRUE, summary |-> Summary]
            /\ pc' = "finally"
            /\ UNCHANGED exit_code
    /\ UNCHANGED << parservars, cfgvars, appvars, searchvars, netvars, refs, cur, results, idx,
                    gets, probes, posts, calls >>

\* the text of an exception the host did not expect
UnexpectedError == "str(e)"

\* ReportGenerator(output_dir) raises (the output directory cannot be made):
\* main ends with the traceback and exit status 1, process_in_background
\* records the error in its except clause
report_raises ==
    /\ pc = "report"
    /\ reports' = reports
    /\ IF host = "main"
       THEN /\ exit_code' = << 1 >>
            /\ pc' = "exited"
            /\ UNCHANGED status
       ELSE /\ status' = [complete |-> TRUE, error |-> UnexpectedError]
            /\ pc' = "finally"
            /\ UNCHANGED exit_code
    /\ UNCHANGED << parservars, cfgvars, appvars, searchvars, netvars, refs, cur, results, idx,
                    gets, probes, posts, calls >>

\* finally: sys.stdout = old_stdout; the worker thread ends
finally ==
    /\ pc = "finally"
    /\ pc' = "exited"
    /\ UNCHANGED << parservars, cfgvars, appvars, jobvars, searchvars, netvars, refs, cur, results,
                    idx, gets, probes, posts, calls >>

NextJob ==
    \/ find_section \/ parse \/ loop_check \/ loop_skip \/ loop_next
    \/ loop_done \/ report \/ report_raises \/ finally \/ CheckReference

SpecJob == InitJob /\ [][NextJob]_vars

\* The steps of the host thread, for the fairness condition.
HostStep ==
    \/ find_section \/ parse \/ loop_check \/ loop_skip \/ loop_next
    \/ loop_done \/ report \/ report_raises \/ finally
    \/ check_reference_enter \/ url_sleep \/ session_get \/ get_answer
    \/ urls_done \/ search_enter \/ search_sleep \/ session_post
    \/ post_answer \/ score_done \/ store_search \/ check_return

\* _check_content_match returns: the thread leaves the position where the
\* page is matched (content_match is the only step NextJob allows there)
content_match_returns == pc = "match" /\ pc' = "for_url"

\* the loop over search_results[:5] comes to its end: the thread leaves the
\* position of the loop (score_result and score_done are the only steps
\* NextJob allows there, and one of them is always enabled)
scoring_ends == pc = "score" /\ pc' = "set_search"

\* the host thread keeps running until it ends, and every request it issues
\* is answered or times out
InitJobApp == InitJob /\ host = "app"

SpecJobLive ==
    /\ InitJobApp
    /\ [][NextJob]_vars
    /\ WF_vars(HostStep)
    /\ WF_pc(content_match_returns)
    /\ WF_pc(scoring_ends)

(***************************************************************************)
(* The regular expressions of PDFReferenceExtractor, each one matched as   *)
(* re matches it: leftmost, greedy, with the alternatives of a failed      *)
(* greedy choice tried only where one of them can succeed.                 *)
(***************************************************************************)
DigitSet == { "0", "1", "2", "3", "4", "5", "6", "7", "8", "9" }
UpperSet == { Upper26[k] : k \in 1..26 }
LowerSet == { Lower26[k] : k \in 1..26 }
SpaceSet == { " ", "\t", "\n" }

\* a character class [...] and a negated one [^...]
Cls(set) == [neg |-> FALSE, set |-> set]
NotCls(set) == [neg |-> TRUE, set |-> set]

\* s[i - 1] of Python for a 1-based i, "" outside the string
At(s, i) == IF i >= 1 /\ i <= Len(s) THEN SubSeq(s, i, i) ELSE ""

\* s[a - 1 : b] of Python for 1-based a and b
Slice(s, a, b) == IF a > b \/ a > Len(s) THEN "" ELSE SubSeq(s, a, Min(b, Len(s)))

In(c, cls) == c # "" /\ (IF cls.neg THEN c \notin cls.set ELSE c \in cls.set)

MinOf(S) == CHOOSE x \in S : \A y \in S : x <= y
MaxOf(S) == CHOOSE x \in S : \A y \in S : x >= y

\* cls* from position i: the index of the last character taken, i - 1 when
\* none is
RunEnd(s, i, cls) ==
    LET End(stop) == IF stop = {} THEN Len(s) ELSE MinOf(stop) - 1
    IN  IF i > Len(s) THEN i - 1
        ELSE End({ j \in i..Len(s) : ~In(At(s, j), cls) })

\* s[i - 1:].startswith(t)
StartsAt(s, i, t) == i >= 1 /\ i + Len(t) - 1 <= Len(s) /\ SubSeq(s, i, i + Len(t) - 1) = t

\* s.find(t) + 1
Find(s, t) ==
    LET First(hit) == IF hit = {} THEN 0 ELSE MinOf(hit)
    IN  First({ i \in 1..(Len(s) - Len(t) + 1) : StartsAt(s, i, t) })

\* s.rstrip(chars)
StripRight(s, chars) ==
    LET Kept(keep) == IF keep = {} THEN "" ELSE SubSeq(s, 1, MaxOf(keep))
    IN  Kept({ j \in 1..Len(s) : At(s, j) \notin chars })

\* s.strip(), without a recursion on the length of s
Trim(s) ==
    LET Kept(keep) == IF keep = {} THEN "" ELSE SubSeq(s, MinOf(keep), MaxOf(keep))
    IN  Kept({ j \in 1..Len(s) : At(s, j) \notin SpaceSet })

(***************************************************************************)
(* PDFReferenceExtractor.parse_references: the numbering grammars.         *)
(***************************************************************************)
\* ref_patterns[k - 1] matched at position p: the positions of the number and
\* of the last character matched, end = 0 when there is no match at p
MarkerAt(s, p, k) ==
    LET Match(a, n1, n2, tail) ==
            [n1 |-> n1, n2 |-> n2,
             end |-> IF /\ At(s, p) = "\n"
                        /\ k # 2 => At(s, a) = (IF k = 1 THEN "[" ELSE "(")
                        /\ n2 >= n1
                        /\ At(s, n2 + 1) = (IF k = 2 THEN "." ELSE IF k = 1 THEN "]" ELSE ")")
                        /\ k = 2 => tail >= n2 + 2
                     THEN tail ELSE 0]
        Number(a, n1, n2) == Match(a, n1, n2, RunEnd(s, n2 + 2, Cls(SpaceSet)))
        Opened(a, n1) == Number(a, n1, RunEnd(s, n1, Cls(DigitSet)))
        Spaces(a) == Opened(a, IF k = 2 THEN a ELSE a + 1)
    IN  Spaces(RunEnd(s, p + 1, Cls(SpaceSet)) + 1)

\* the start of the leftmost match of ref_patterns[k - 1] at or after from, 0
\* when there is none
NextMarker(s, from, k) ==
    LET First(hit) == IF hit = {} THEN 0 ELSE MinOf(hit)
    IN  First({ p \in from..Len(s) : MarkerAt(s, p, k).end # 0 })

\* re.search(pattern, refs_text)
re_search(k, s) == NextMarker(s, 1, k) # 0

\* re.split(pattern, refs_text): texts and captured numbers in turn
RECURSIVE SplitFrom(_, _, _)
SplitFrom(s, b, k) ==
    LET Cut(p, m) == << Slice(s, b, p - 1), Slice(s, m.n1, m.n2) >> \o SplitFrom(s, m.end + 1, k)
        From(p) == IF p = 0 THEN << Slice(s, b, Len(s)) >> ELSE Cut(p, MarkerAt(s, p, k))
    IN  From(NextMarker(s, b, k))

re_split(k, s) == SplitFrom(s, 1, k)

\* for i in range(0, len(parts), 2): if i+1 < len(parts): ...
RECURSIVE PairedTexts(_)
PairedTexts(parts) ==
    LET Text(t) == IF t # "" THEN << t >> ELSE << >>
    IN  IF Len(parts) < 2 THEN << >>
        ELSE Text(Trim(parts[2])) \o PairedTexts(SubSeq(parts, 3, Len(parts)))

\* what one matching pattern appends to split_refs
NumberedEntries(parts) ==
    LET Text(t) == IF t # "" THEN << t >> ELSE << >>
    IN  Text(Trim(parts[1])) \o PairedTexts(Tail(parts))

\* refs_text.split('\n')
RECURSIVE SplitLines(_)
SplitLines(s) ==
    LET From(p) == IF p = 0 THEN << s >>
                   ELSE << Slice(s, 1, p - 1) >> \o SplitLines(Slice(s, p + 1, Len(s)))
    IN  From(Find(s, "\n"))

\* re.match(r'^[A-Z][a-z]+,\s*[A-Z]', line) or re.match(r'^[A-Z][a-z]+\s+[A-Z]', line)
LooksLikeNewRef(line) ==
    LET Second(l, a, b) ==
            /\ In(At(line, 1), Cls(UpperSet))
            /\ l >= 2
            /\ \/ At(line, l + 1) = "," /\ In(At(line, a + 1), Cls(UpperSet))
               \/ b >= l + 1 /\ In(At(line, b + 1), Cls(UpperSet))
        Word(l) == Second(l, RunEnd(line, l + 2, Cls(SpaceSet)), RunEnd(line, l + 1, Cls(SpaceSet)))
    IN  Word(RunEnd(line, 2, Cls(LowerSet)))

\* the line-based fallback: the loop over lines, then `if current_ref`
RECURSIVE LineEntries(_, _)
LineEntries(lines, current_ref) ==
    LET Flush(ref) == IF ref # "" THEN << ref >> ELSE << >>
        Step(line) ==
            IF line = "" THEN Flush(current_ref) \o LineEntries(Tail(lines), "")
            ELSE IF current_ref # "" /\ LooksLikeNewRef(line)
            THEN << current_ref >> \o LineEntries(Tail(lines), line)
            ELSE LineEntries(Tail(lines),
                             IF current_ref # "" THEN current_ref \o " " \o line
                             ELSE line)
    IN  IF lines = << >> THEN Flush(current_ref) ELSE Step(Trim(Head(lines)))

\* an entry of 20 characters is kept too
KeepEntry_from20(ref_text) == Len(ref_text) >= 20

\* if len(ref_text) > 20
KeepEntry(ref_text) == Len(ref_text) > 20

(***************************************************************************)
(* PDFReferenceExtractor._parse_reference_details: DOI, URLs and year.     *)
(***************************************************************************)
DoiMinDigits == 4

\* (?:\.\d+)* from position i: the position after the last group taken
RECURSIVE DotGroups(_, _)
DotGroups(s, i) ==
    IF At(s, i) = "." /\ In(At(s, i + 1), Cls(DigitSet))
    THEN DotGroups(s, RunEnd(s, i + 1, Cls(DigitSet)) + 1)
    ELSE i

\* <label>[\s:]*<head>\.\d{4,}(?:\.\d+)*/<suffix class>+ matched at position
\* p: the index of the last character matched, 0 when there is no match at p
DoiLikeAt(s, p, labels, heads, suffix) ==
    LET Match(q, hs, hl, d1, d2, g, e) ==
            IF /\ Slice(s, p, p + 2) \in labels
               /\ hs # {}
               /\ At(s, q + hl) = "."
               /\ d2 - d1 + 1 >= DoiMinDigits
               /\ At(s, g) = "/"
               /\ e >= g + 1
            THEN e ELSE 0
        Groups(q, hs, hl, d1, d2, g) == Match(q, hs, hl, d1, d2, g, RunEnd(s, g + 1, suffix))
        Digits(q, hs, hl, d1, d2) == Groups(q, hs, hl, d1, d2, DotGroups(s, d2 + 1))
        Dot(q, hs, hl, d1) == Digits(q, hs, hl, d1, RunEnd(s, d1, Cls(DigitSet)))
        Lead(q, hs, hl) == Dot(q, hs, hl, q + hl + 1)
        Heads(q, hs) == Lead(q, hs, IF hs = {} THEN 0 ELSE Len(CHOOSE x \in hs : TRUE))
        Label(q) == Heads(q, { x \in heads : StartsAt(s, q, x) })
    IN  Label(RunEnd(s, p + 3, Cls(SpaceSet \cup { ":" })) + 1)

\* doi_pattern with re.IGNORECASE
DoiAt(s, p) ==
    DoiLikeAt(s, p, { "doi", "doI", "dOi", "dOI", "Doi", "DoI", "DOi", "DOI" },
              { "10" }, NotCls(SpaceSet \cup { ",", ";" }))

\* re.search(doi_pattern, text, re.IGNORECASE).group(0), None without a match
doi_match(text) ==
    LET Group(p) == << SubSeq(text, p, DoiAt(text, p)) >>
        First(hit) == IF hit = {} THEN None ELSE Group(MinOf(hit))
    IN  First({ p \in 1..Len(text) : DoiAt(text, p) # 0 })

\* doi_match.group(0).split(':', 1)[-1].strip().rstrip('.,;')
DoiOf(g) ==
    LET AfterColon(p) == IF p = 0 THEN g ELSE Slice(g, p + 1, Len(g))
    IN  StripRight(Trim(AfterColon(Find(g, ":"))), { ".", ",", ";" })

\* url_pattern matched at position p: the index of the last character matched,
\* 0 when there is no match at p.  The last character is one that is not a
\* dot, so the greedy run before it gives back its trailing dots.
UrlAt(s, p) ==
    LET Last(b, last) == IF b = 0 \/ last = {} THEN 0 ELSE MaxOf(last)
        Run(b, e) == Last(b, { j \in (b + 1)..e : At(s, j) # "." })
        Scheme(b) == Run(b, RunEnd(s, b, NotCls(SpaceSet \cup { ",", "]", ")" })))
    IN  Scheme(IF StartsAt(s, p, "https://") THEN p + 8
               ELSE IF StartsAt(s, p, "http://") THEN p + 7 ELSE 0)

\* re.findall(url_pattern, text) from position from on
RECURSIVE UrlsFrom(_, _)
UrlsFrom(s, from) ==
    LET Found(p, e) == << SubSeq(s, p, e) >> \o UrlsFrom(s, e + 1)
        Match(p) == Found(p, UrlAt(s, p))
        First(hit) == IF hit = {} THEN << >> ELSE Match(MinOf(hit))
    IN  First({ p \in from..Len(s) : UrlAt(s, p) # 0 })

\* for url in urls: url = url.rstrip('.,;)'); if url not in ref.urls: append
RECURSIVE AppendUrls(_, _)
AppendUrls(urls, found_urls) ==
    LET Add(url) == AppendUrls(IF \E i \in 1..Len(urls) : urls[i] = url
                               THEN urls ELSE Append(urls, url),
                               Tail(found_urls))
    IN  IF found_urls = << >> THEN urls
        ELSE Add(StripRight(Head(found_urls), { ".", ",", ";", ")" }))

WordSet == DigitSet \cup UpperSet \cup LowerSet \cup { "_" }

\* year_pattern matched at position p
YearAt(s, p) ==
    /\ ~In(At(s, p - 1), Cls(WordSet))
    /\ Slice(s, p, p + 1) \in { "19", "20" }
    /\ In(At(s, p + 2), Cls(DigitSet))
    /\ In(At(s, p + 3), Cls(DigitSet))
    /\ ~In(At(s, p + 4), Cls(WordSet))

\* re.findall(year_pattern, text): with one group in the pattern, findall
\* returns what the group (19|20) matched
RECURSIVE YearsFrom(_, _)
YearsFrom(s, from) ==
    LET Match(p) == << SubSeq(s, p, p + 1) >> \o YearsFrom(s, p + 4)
        First(hit) == IF hit = {} THEN << >> ELSE Match(MinOf(hit))
    IN  First({ p \in from..Len(s) : YearAt(s, p) })

year_matches(text) == YearsFrom(text, 1)

(***************************************************************************)
(* PDFReferenceExtractor._extract_authors_and_title.                       *)
(***************************************************************************)
TitleMinLen == 30
AuthorMinLen == 3
AuthorLimit == 10

\* https?://[^\s]+ matched at position p: the index of the last character
\* matched, 0 when there is no match at p
LinkAt(s, p) ==
    LET Run(b, e) == IF b = 0 \/ e < b THEN 0 ELSE e
        Scheme(b) == Run(b, RunEnd(s, b, NotCls(SpaceSet)))
    IN  Scheme(IF StartsAt(s, p, "https://") THEN p + 8
               ELSE IF StartsAt(s, p, "http://") THEN p + 7 ELSE 0)

\* re.sub(r'https?://[^\s]+', "", text)
RECURSIVE RemoveLinks(_)
RemoveLinks(s) ==
    LET Match(p) == Slice(s, 1, p - 1) \o RemoveLinks(Slice(s, LinkAt(s, p) + 1, Len(s)))
        First(hit) == IF hit = {} THEN s ELSE Match(MinOf(hit))
    IN  First({ p \in 1..Len(s) : LinkAt(s, p) # 0 })

\* (?:doi|DOI)[\s:]*[10]\.\d{4,}(?:\.\d+)*\/[^\s]+ matched at position p
DoiTextAt(s, p) == DoiLikeAt(s, p, { "doi", "DOI" }, { "1", "0" }, NotCls(SpaceSet))

\* re.sub of that pattern by the empty string
RECURSIVE RemoveDoiText(_)
RemoveDoiText(s) ==
    LET Match(p) == Slice(s, 1, p - 1) \o RemoveDoiText(Slice(s, DoiTextAt(s, p) + 1, Len(s)))
        First(hit) == IF hit = {} THEN s ELSE Match(MinOf(hit))
    IN  First({ p \in 1..Len(s) : DoiTextAt(s, p) # 0 })

CleanText(text) == RemoveDoiText(RemoveLinks(text))

\* title_patterns[k - 1] matched at position p, for the patterns of the double
\* (k = 1) and of the single (k = 2) quote: the index of the last character of
\* the group, 0 when there is no match at p.  The third pattern starts with
\* two backquotes, a character that no entry of this model holds, so it never
\* matches here.
QuotedAt(s, p, k) ==
    LET Run(q, e) == IF At(s, p) = q /\ e >= p + 1 /\ At(s, e + 1) = q THEN e ELSE 0
        Quote(q) == Run(q, RunEnd(s, p + 1, NotCls({ q })))
    IN  Quote(IF k = 1 THEN "\"" ELSE "'")

\* re.search(title_patterns[k - 1], clean_text): group(0) and group(1), None
\* without a match
TitleSearch(s, k) ==
    LET Groups(p, e) == << [g0 |-> SubSeq(s, p, e + 1), g1 |-> SubSeq(s, p + 1, e)] >>
        Match(p) == Groups(p, QuotedAt(s, p, k))
        First(hit) == IF hit = {} THEN None ELSE Match(MinOf(hit))
    IN  First({ p \in 1..Len(s) : QuotedAt(s, p, k) # 0 })

\* the first of the title patterns that matches, 0 when none does
TitlePattern(s) ==
    LET First(hit) == IF hit = {} THEN 0 ELSE MinOf(hit)
    IN  First({ k \in 1..2 : TitleSearch(s, k) # None })

\* clean_text.replace(old, "", 1)
RemoveFirst(s, old) ==
    LET From(p) == IF p = 0 THEN s
                   ELSE Slice(s, 1, p - 1) \o Slice(s, p + Len(old), Len(s))
    IN  From(Find(s, old))

\* re.split(r'[,\.]', clean_text)
RECURSIVE SplitClauses(_)
SplitClauses(s) ==
    LET Match(p) == << Slice(s, 1, p - 1) >> \o SplitClauses(Slice(s, p + 1, Len(s)))
        First(hit) == IF hit = {} THEN << s >> ELSE Match(MinOf(hit))
    IN  First({ p \in 1..Len(s) : At(s, p) \in { ",", "." } })

\* re.match(r'^[A-Z]\s*\.\s*[A-Z]', part)
InitialsRun(part) ==
    LET Match(a, b) == /\ In(At(part, 1), Cls(UpperSet))
                       /\ At(part, a + 1) = "."
                       /\ In(At(part, b + 1), Cls(UpperSet))
        Spaces(a) == Match(a, RunEnd(part, a + 2, Cls(SpaceSet)))
    IN  Spaces(RunEnd(part, 2, Cls(SpaceSet)))

\* if len(part) > 30 and not re.match(...)
TitleLike(part) == Len(part) > TitleMinLen /\ ~InitialsRun(part)

\* for i, part in enumerate(parts): ... ref.title = part; break
FallbackTitle(clean_text) ==
    LET First(parts, ok) == IF ok = {} THEN "" ELSE parts[MinOf(ok)]
        Among(parts) == First(parts, { i \in 1..Len(parts) : TitleLike(parts[i]) })
        Stripped(parts) == Among([i \in 1..Len(parts) |-> Trim(parts[i])])
    IN  Stripped(SplitClauses(clean_text))

\* ref.title and clean_text after the title has been looked for
TitleStep(text) ==
    LET Found(clean_text, quoted) ==
            [title      |-> IF quoted # "" THEN quoted ELSE FallbackTitle(clean_text),
             clean_text |-> clean_text,
             quoted     |-> quoted # ""]
        Matched(clean, m) ==
            IF m = None THEN Found(clean, "")
            ELSE Found(RemoveFirst(clean, m[1].g0), Trim(m[1].g1))
        Pattern(clean, k) == Matched(clean, IF k = 0 THEN None ELSE TitleSearch(clean, k))
        Cleaned(clean) == Pattern(clean, TitlePattern(clean))
    IN  Cleaned(CleanText(text))

\* author_text: clean_text, cut before the title when the title is found in it
\* after its first character
AuthorText(clean_text, title) ==
    LET From(p) == IF title # "" /\ p > 1 THEN Slice(clean_text, 1, p - 1) ELSE clean_text
    IN  From(Find(clean_text, title))

\* (?:\s+[A-Z][a-z]+)* after a word ending at e: the end of the last word taken
RECURSIVE WordsEnd(_, _)
WordsEnd(s, e) ==
    LET Word(sp, w) == IF sp >= e + 1 /\ In(At(s, sp + 1), Cls(UpperSet)) /\ w >= sp + 2
                       THEN WordsEnd(s, w) ELSE e
        Spaces(sp) == Word(sp, RunEnd(s, sp + 2, Cls(LowerSet)))
    IN  Spaces(RunEnd(s, e + 1, Cls(SpaceSet)))

\* (?:\s*[A-Z]\.)* after an initial ending at e: the end of the last one taken
RECURSIVE InitialsEnd(_, _)
InitialsEnd(s, e) ==
    LET Spaces(sp) == IF In(At(s, sp + 1), Cls(UpperSet)) /\ At(s, sp + 2) = "."
                      THEN InitialsEnd(s, sp + 2) ELSE e
    IN  Spaces(RunEnd(s, e + 1, Cls(SpaceSet)))

\* author_patterns[k - 1] matched at position p: the two groups and the index
\* of the last character matched, end = 0 when there is no match at p
AuthorAt(s, p, k) ==
    LET Groups(we, sp, e) ==
            [end |-> e, last_name |-> SubSeq(s, p, we), initials |-> SubSeq(s, sp + 1, e)]
        Match(w1, we, sp) ==
            IF /\ In(At(s, p), Cls(UpperSet))
               /\ w1 >= p + 1
               /\ IF k = 1 THEN At(s, we + 1) = "," ELSE sp >= we + 1
               /\ In(At(s, sp + 1), Cls(UpperSet))
               /\ At(s, sp + 2) = "."
            THEN Groups(we, sp, InitialsEnd(s, sp + 2))
            ELSE [end |-> 0, last_name |-> "", initials |-> ""]
        Words(w1, we) ==
            Match(w1, we, RunEnd(s, IF k = 1 THEN we + 2 ELSE we + 1, Cls(SpaceSet)))
        Word(w1) == Words(w1, WordsEnd(s, w1))
    IN  Word(RunEnd(s, p + 1, Cls(LowerSet)))

\* for match in re.findall(author_patterns[k - 1], author_text): the names
\* f"{last_name}, {initials}" in the order of the matches
RECURSIVE AuthorNames(_, _, _)
AuthorNames(s, from, k) ==
    LET Name(m) == << m.last_name \o ", " \o m.initials >> \o AuthorNames(s, m.end + 1, k)
        First(hit) == IF hit = {} THEN << >> ELSE Name(AuthorAt(s, MinOf(hit), k))
    IN  First({ p \in from..Len(s) : AuthorAt(s, p, k).end # 0 })

\* \s+and\s+|\s*&\s* matched at position p: the index of the last character
\* matched, 0 when there is no match at p
AndAt(s, p) ==
    LET Match(r, r2) ==
            IF r >= p /\ StartsAt(s, r + 1, "and") /\ r2 >= r + 4 THEN r2
            ELSE IF At(s, r + 1) = "&" THEN RunEnd(s, r + 2, Cls(SpaceSet))
            ELSE 0
        Spaces(r) == Match(r, RunEnd(s, r + 4, Cls(SpaceSet)))
    IN  Spaces(RunEnd(s, p, Cls(SpaceSet)))

\* re.split(r'\s+and\s+|\s*&\s*', author_text)
RECURSIVE AndSplit(_)
AndSplit(s) ==
    LET Match(p) == << Slice(s, 1, p - 1) >> \o AndSplit(Slice(s, AndAt(s, p) + 1, Len(s)))
        First(hit) == IF hit = {} THEN << s >> ELSE Match(MinOf(hit))
    IN  First({ p \in 1..Len(s) : AndAt(s, p) # 0 })

\* re.match(r'^[A-Z][a-z]+', part)
NameLike(part) == In(At(part, 1), Cls(UpperSet)) /\ In(At(part, 2), Cls(LowerSet))

\* a merge that does not look for the candidate in the list
AddCandidates_all(authors, cands, named) ==
    authors \o SelectSeq([i \in 1..Len(cands) |->
                            IF named THEN cands[i] ELSE StripRight(Trim(cands[i]), { ",", "." })],
                         LAMBDA c : named \/ (Len(c) > AuthorMinLen /\ NameLike(c)))

\* the two loops that fill `authors`: the names of a pattern (named), or the
\* parts of the and/& split, each one appended when it is not in the list yet
RECURSIVE AddCandidates(_, _, _)
AddCandidates(authors, cands, named) ==
    LET Add(c, fresh) ==
            AddCandidates(IF (IF named THEN fresh
                              ELSE c # "" /\ Len(c) > AuthorMinLen /\ fresh /\ NameLike(c))
                          THEN Append(authors, c) ELSE authors,
                          Tail(cands), named)
        Candidate(c) == Add(c, ~\E i \in 1..Len(authors) : authors[i] = c)
    IN  IF cands = << >> THEN authors
        ELSE Candidate(IF named THEN Head(cands)
                       ELSE StripRight(Trim(Head(cands)), { ",", "." }))

\* the list `authors` before it is cut
AuthorCandidates(author_text) ==
    AddCandidates(
        AddCandidates(
            AddCandidates(<< >>, AuthorNames(author_text, 1, 1), TRUE),
            AuthorNames(author_text, 1, 2), TRUE),
        AndSplit(author_text), FALSE)

\* the fields _parse_reference_details fills in for an entry
_parse_reference_details(raw_text) ==
    LET Fields(doi, years, t) ==
            [raw_text |-> raw_text,
             doi      |-> doi,
             urls     |-> AppendUrls(IF doi = None THEN << >>
                                     ELSE << "https://doi.org/" \o doi[1] >>,
                                     UrlsFrom(raw_text, 1)),
             year     |-> IF years = << >> THEN None ELSE << years[1] >>,
             title    |-> t.title,
             authors  |-> Prefix(AuthorCandidates(AuthorText(t.clean_text, t.title)),
                                 AuthorLimit)]
        Doi(g) == Fields(IF g = None THEN None ELSE << DoiOf(g[1]) >>,
                         year_matches(raw_text), TitleStep(raw_text))
    IN  Doi(doi_match(raw_text))

(***************************************************************************)
(* PDFReferenceExtractor.parse_references, one step at a time, on the      *)
(* section texts below.  An extractor parses a text again and again; a     *)
(* new extractor starts with an empty list of references.                  *)
(***************************************************************************)
MaxParses == 2

SectionTexts ==
    { "\n[1] Smith, J. A. \"Deep Learning Survey\". J. of X, 2020. doi:10.1000/abc123.\n[2] Lee K. and Wu, X. A study of the things that matter most in life, 1999. https://example.com/paper.",
      "[1] A. [2] B. [3] C.",
      "\n[1] A.\n[2] B.\n[3] C.",
      "[1] First entry of the list, 2001.\n[2] Second entry of the list, 2002.",
      "\n1. Brown, T. Language models are few-shot learners. NeurIPS 2020.\n2. short one",
      "\n(1) Kim, Y. Convolutional nets for sentences, 2014.\n(2) too short",
      "\n[1] Alpha entry with enough length here.\n2. Beta entry with enough length here.\n[3] Gamma entry of enough length too.",
      "\n1. Delta entry with enough length here.\n(2) Epsilon entry with enough length.\n3. Zeta entry with enough length here.",
      "\n[1]",
      "\n[1] 123456789012345\n[2] 1234567890123456789012345\n[3] 12345678901234567890 \n[4] abcdefghijklmnopqrstu",
      "\n[1] Doe, J. Some paper. doi:10.1000/abc123 https://doi.org/10.1000/abc123 https://example.com/paper, https://example.com/paper.",
      "\n[1] Roe, R. Another paper (doi:10.1000/abc123). (https://example.com/paper).",
      "\n[1] Poe, E. The unlabelled one. 10.1000/abc123, 2005.",
      "\n[1] Moe, M. The labelled one. DOI 10.1000/abc123; 1987 and 2003.",
      "\n[1] Noe, N. The colon one. doi 10.1000/a:b7, 2001.",
      "\n[1] Hoe, H. The glued one. doi10.1000/xyz and doi:10.1000/j:k.",
      "\n[1] Ba, A., Ca, A., Da, A., Ea, A., Fa, A., Ga, A., Ha, A., Ia, A., Ja, A., Ka, A., La, A. and Ma, A. Many hands.",
      "\n[1] Smith, J. and Smith, J. and Lee K. & Smith, J. Twice told, 2010.",
      "\n[1] Wu X, A clause of thirty-one characters, A much longer clause that is the real title of the work, 2011.",
      "\n[1] Wu X, A much longer clause that is the real title of the work, A clause of thirty-one characters, 2011.",
      "Smith, J. First unnumbered reference here.\nLee K Second unnumbered reference here.\n\nlower continuation line of text\nmore",
      "\n[1] Zed, Z. Numbers 12020 and 2020a only, vol 3." }


validatorvars == << cfgvars, appvars, jobvars, searchvars, netvars, refs, cur, results,
                    idx, gets, probes, posts, calls >>

\* a parse that keeps the references of the run before
ParseResult_accumulated(old, new) == old \o new

\* self.references = references
ParseResult(old, new) == new

\* references = []; split_refs = []
parse_references_enter ==
    /\ host = "parser"
    /\ pc \in { "p_idle", "p_returned" }
    /\ Len(parsed) < MaxParses
    /\ split_refs' = << >>
    /\ local_references' = << >>
    /\ pattern_i' = 1
    /\ entry_i' = 1
    /\ grammar' = 0
    /\ pc' = "p_patterns"
    /\ UNCHANGED << validatorvars, arg_refs_text, self_references, parsed >>

\* one iteration of `for pattern in ref_patterns`
try_pattern ==
    /\ pc = "p_patterns"
    /\ pattern_i <= 3
    /\ \E entries \in { IF re_search(pattern_i, arg_refs_text)
                        THEN NumberedEntries(re_split(pattern_i, arg_refs_text))
                        ELSE << >> } :
           /\ split_refs' = split_refs \o entries
           /\ IF split_refs \o entries # << >>
              THEN /\ grammar' = pattern_i
                   /\ pc' = "p_create"
                   /\ UNCHANGED pattern_i
              ELSE /\ pattern_i' = pattern_i + 1
                   /\ UNCHANGED << grammar, pc >>
    /\ UNCHANGED << validatorvars, arg_refs_text, local_references, entry_i,
                    self_references, parsed >>

\* no pattern gave an entry: the lines of the text are grouped
split_lines ==
    /\ pc = "p_patterns"
    /\ pattern_i > 3
    /\ split_refs = << >>
    /\ split_refs' = LineEntries(SplitLines(arg_refs_text), "")
    /\ grammar' = 4
    /\ pc' = "p_create"
    /\ UNCHANGED << validatorvars, arg_refs_text, local_references, pattern_i, entry_i,
                    self_references, parsed >>

\* one iteration of `for ref_text in split_refs`
create_reference ==
    /\ pc = "p_create"
    /\ entry_i <= Len(split_refs)
    /\ local_references' = IF KeepEntry(split_refs[entry_i])
                     THEN Append(local_references, _parse_reference_details(split_refs[entry_i]))
                     ELSE local_references
    /\ entry_i' = entry_i + 1
    /\ UNCHANGED << validatorvars, arg_refs_text, split_refs, pattern_i, grammar,
                    self_references, parsed, pc >>

\* self.references = references; return references
parse_return ==
    /\ pc = "p_create"
    /\ entry_i > Len(split_refs)
    /\ self_references' = ParseResult(self_references, local_references)
    /\ parsed' = Append(parsed, ParseResult(self_references, local_references))
    /\ pc' = "p_returned"
    /\ UNCHANGED << validatorvars, arg_refs_text, split_refs, local_references, pattern_i,
                    entry_i, grammar >>

\* PDFReferenceExtractor(pdf_path): another extractor takes over
new_extractor ==
    /\ pc = "p_returned"
    /\ self_references # << >>
    /\ self_references' = << >>
    /\ pc' = "p_idle"
    /\ UNCHANGED << validatorvars, arg_refs_text, split_refs, local_references, pattern_i,
                    entry_i, grammar, parsed >>

InitParse ==
    /\ host = "parser"
    /\ pc = "p_idle"
    /\ doc = NoDoc
    /\ enable_search = FALSE
    /\ delay = 1
    /\ no_validate = FALSE
    /\ refs = << >>
    /\ status = << >>
    /\ InitLocals
    /\ InitParser(SectionTexts)

NextParse ==
    \/ parse_references_enter \/ try_pattern \/ split_lines
    \/ create_reference \/ parse_return \/ new_extractor

SpecParse == InitParse /\ [][NextParse]_vars

(***************************************************************************)
(* Properties of check_reference.                                          *)
(***************************************************************************)
AccessibleUrls(d) == IF d = EmptyDict THEN << >> ELSE d.accessible_urls

AtRest == pc \in { "idle", "returned" }

IsIn(seq, x) == \E i \in 1..Len(seq) : seq[i] = x

Entries(res, url) == { i \in 1..Len(res.inaccessible_urls) : res.inaccessible_urls[i].url = url }

\* C1: between calls of check_reference, is_accessible is true if and only if
\* the accessible_urls list of the stored url_check_results is non-empty.
C1_AccessibleIffStored ==
    AtRest => (CurRef.is_accessible <=> AccessibleUrls(CurRef.url_check_results) # << >>)

\* C2: every answered probe is classified by its outcome: 2xx in
\* accessible_urls; another status in inaccessible_urls with the status code; a
\* connect or read timeout in inaccessible_urls with reason "Timeout" and no
\* status code; another failure in inaccessible_urls with its description.
C2_Classified ==
    /\ \A i \in 1..Min(Len(gets), Len(probes)) :
          LET o == probes[i]
              u == gets[i]
              e == results.inaccessible_urls[CHOOSE k \in Entries(results, u) : TRUE]
          IN  IF o.kind = "response" /\ o.status_code >= 200 /\ o.status_code <= 299
              THEN IsIn(results.accessible_urls, u) /\ Entries(results, u) = {}
              ELSE /\ ~IsIn(results.accessible_urls, u)
                   /\ Cardinality(Entries(results, u)) = 1
                   /\ IF o.kind = "response"
                      THEN "status_code" \in DOMAIN e /\ e.status_code = o.status_code
                      ELSE IF o.kind \in { "ConnectTimeout", "ReadTimeout" }
                      THEN e.reason = "Timeout" /\ "status_code" \notin DOMAIN e
                      ELSE e.reason = o.text /\ "status_code" \notin DOMAIN e
    /\ pc = "returned" => CurRef.url_check_results = results

C2_Witness ==
    /\ pc = "returned"
    /\ Len(probes) = 2
    /\ probes[1].kind = "ReadTimeout"
    /\ probes[2].kind = "response" /\ probes[2].status_code = 204

\* C3: a failed probe never ends the call: the requests issued are the URLs of
\* the Reference in list order, one each, and on return every URL is in
\* exactly one of accessible_urls and inaccessible_urls.
C3_EveryUrlOnce ==
    /\ Len(gets) <= Len(CurRef.urls)
    /\ \A i \in 1..Len(gets) : gets[i] = CurRef.urls[i]
    /\ pc = "returned" =>
          LET res == CurRef.url_check_results
          IN  /\ gets = CurRef.urls
              /\ Len(res.accessible_urls) + Len(res.inaccessible_urls) = Len(CurRef.urls)
              /\ \A i \in 1..Len(CurRef.urls) :
                    IsIn(res.accessible_urls, CurRef.urls[i])
                        <=> Entries(res, CurRef.urls[i]) = {}

C3_Witness ==
    /\ pc = "returned"
    /\ Len(CurRef.urls) = 2
    /\ probes[1].kind = "ConnectionError"
    /\ probes[2].kind = "response" /\ probes[2].status_code = 500

\* C4: at most one request is in flight, and a request is issued only right
\* after a sleep of the configured delay that began after the previous request
\* was answered.
C4_OneAtATimeAfterSleep ==
    /\ [](inflight <= 1)
    /\ [][inflight' > inflight =>
              /\ inflight = 0
              /\ pc \in { "get", "post" }
              /\ rested = delay]_vars
    /\ [][(pc' \in { "get", "post" } /\ pc' # pc) =>
              /\ inflight = 0
              /\ rested' = delay]_vars

C4_Witness ==
    /\ cur = 2
    /\ pc = "post_wait"
    /\ netcalls = 3
    /\ inflight = 1

\* C5: check_reference runs the search fallback if and only if the Reference
\* has no URL and search is enabled: a Reference with a URL never gets
\* search_results, and without enable_search no search request is issued.
C5_SearchOnlyWithoutUrls ==
    /\ CurRef.urls # << >> => (CurRef.search_results = None /\ posts = 0)
    /\ ~enable_search => (CurRef.search_results = None /\ posts = 0)
    /\ pc \in { "store", "returned" } =>
          ((sr # << >>) <=> (CurRef.urls = << >> /\ enable_search))
    /\ pc = "returned" /\ sr # << >> => CurRef.search_results = sr

C5_Witness ==
    /\ pc = "returned"
    /\ enable_search
    /\ Len(CurRef.urls) = 2
    /\ CurRef.url_check_results.accessible_urls = << >>

\* C6: after check_reference on a Reference without URLs, with search enabled,
\* search_results holds the search output and url_check_results still has its
\* initial empty value.
C6_UrlCheckLeftUnset ==
    (pc = "returned" /\ CurRef.urls = << >> /\ enable_search) =>
        /\ CurRef.search_results # None
        /\ CurRef.search_results = sr
        /\ CurRef.url_check_results = EmptyDict

\* the search request of the current call failed: an exception or a status
\* other than 200
SearchFailed ==
    /\ posts = 1
    /\ Len(probes) = 1
    /\ probes[1].kind # "response" \/ probes[1].status_code # 200

\* C7: a failed search request is recorded in search_results as
\* search_performed = true together with an error description; it is not
\* retried.
C7_SearchFailureRecorded ==
    /\ posts <= 1
    /\ (pc = "returned" /\ SearchFailed) =>
          /\ CurRef.search_results # None
          /\ CurRef.search_results.search_performed
          /\ "error" \in DOMAIN CurRef.search_results

(***************************************************************************)
(* Properties of the hosts.                                                *)
(***************************************************************************)
\* C8: when no references section is found, or no entry is kept, the job ends
\* with the error surfaced (exit status 1, or an error status with complete =
\* true) and without any validation, search or report.
C8_FailedJobIsTerminal ==
    (pc \notin { "find", "parse" } /\ (doc.refs_text = "" \/ doc.references = << >>)) =>
        /\ pc \in { "finally", "exited" }
        /\ netcalls = 0
        /\ calls = 0
        /\ reports = {}
        /\ refs = << >>
        /\ host = "main" => exit_code = << 1 >>
        /\ host = "app" =>
              /\ status.complete
              /\ "error" \in DOMAIN status
              /\ status.error = IF doc.refs_text = ""
                                THEN "Could not find references section in PDF"
                                ELSE "No references were extracted"

C8_Witness ==
    /\ host = "app"
    /\ pc = "exited"
    /\ doc.refs_text # ""
    /\ doc.references = << >>
    /\ status.complete

(***************************************************************************)
(* Properties of the search fallback.                                      *)
(***************************************************************************)
\* search_reference_online has gone past the construction of the query
AfterQuery ==
    pc \in { "search_sleep", "post", "post_wait", "score", "set_search", "store",
             "returned" }

\* the query the reference calls for: the title cut to 100 characters, the
\* first author and the year, those present, with one space between them
WantedQuery(r) ==
    LET has_t == r.title # ""
        has_a == Len(r.authors) > 0
        has_y == r.year # None
        T == IF Len(r.title) > 100 THEN SubSeq(r.title, 1, 100) ELSE r.title
        A == r.authors[1]
        Y == r.year[1]
    IN  CASE has_t /\ has_a /\ has_y   -> T \o " " \o A \o " " \o Y
          [] has_t /\ has_a /\ ~has_y  -> T \o " " \o A
          [] has_t /\ ~has_a /\ has_y  -> T \o " " \o Y
          [] has_t /\ ~has_a /\ ~has_y -> T
          [] ~has_t /\ has_a /\ has_y  -> A \o " " \o Y
          [] ~has_t /\ has_a /\ ~has_y -> A
          [] ~has_t /\ ~has_a /\ has_y -> Y
          [] OTHER                     -> ""

NothingToSearch(r) == r.title = "" /\ r.authors = << >> /\ r.year = None

\* C9: the query is the single-space join of the title cut to its first 100
\* characters, the first author and the year, the missing ones left out; with
\* none of them no request is issued and the result is search_performed =
\* false with reason "insufficient_info".
C9_QueryBuilt ==
    AfterQuery =>
        IF NothingToSearch(CurRef)
        THEN /\ posts = 0
             /\ sr = [search_performed |-> FALSE, reason |-> "insufficient_info"]
             /\ pc = "returned" => CurRef.search_results = sr
        ELSE /\ query = WantedQuery(CurRef)
             /\ query # ""
             /\ (CurRef.title = "A Study of X" /\ CurRef.authors = << >>
                   /\ CurRef.year = None)
                    => query = "A Study of X"
             /\ (CurRef.title = "A Study of X" /\ CurRef.authors = << "Smith, J." >>
                   /\ CurRef.year = << "2020" >>)
                    => query = "A Study of X Smith, J. 2020"
             /\ pc = "returned" => CurRef.search_results.query = query

C9_Witness ==
    /\ pc = "returned"
    /\ Len(CurRef.title) > 100
    /\ CurRef.authors = << "Smith, J." >>
    /\ CurRef.year = << "2020" >>
    /\ Len(CurRef.search_results.query) = 100 + 1 + 9 + 1 + 4

\* the components of the score of the i-th result examined
TitleOn(i) == CurRef.title # "" /\ found[i].title # ""
SnippetOn(i) == CurRef.title # "" /\ found[i].snippet # ""
AuthorOn(i) ==
    /\ found[i].snippet # ""
    /\ \E k \in 1..3 :
          /\ k <= Len(CurRef.authors)
          /\ Contains(lower(found[i].snippet), lower(LastName(CurRef.authors[k])))
YearOn(i) ==
    /\ CurRef.year # None
    /\ found[i].snippet # ""
    /\ Contains(found[i].snippet, CurRef.year[1])
TitleSim(i) == partial_ratio(lower(CurRef.title), lower(found[i].title))
SnippetSim(i) == partial_ratio(lower(CurRef.title), lower(found[i].snippet))

Weighted(i) ==
    (IF TitleOn(i) THEN 2 * TitleSim(i) ELSE 0)
    + (IF SnippetOn(i) THEN SnippetSim(i) ELSE 0)
    + (IF AuthorOn(i) THEN 70 ELSE 0)
    + (IF YearOn(i) THEN 50 ELSE 0)

Contributing(i) ==
    (IF TitleOn(i) THEN 1 ELSE 0) + (IF SnippetOn(i) THEN 1 ELSE 0)
    + (IF AuthorOn(i) THEN 1 ELSE 0) + (IF YearOn(i) THEN 1 ELSE 0)

MeanScore(i) ==
    match_scores[i].match_score =
        IF Contributing(i) = 0 THEN 0 ELSE Weighted(i) \div Contributing(i)

\* title 80 and snippet 40 with no bonus give 100
TitleSnippetExample(i) ==
    (TitleOn(i) /\ SnippetOn(i) /\ TitleSim(i) = 80 /\ SnippetSim(i) = 40
       /\ ~AuthorOn(i) /\ ~YearOn(i))
        => match_scores[i].match_score = 100

\* a title score of 80 and the author bonus are all that adds to the sum
TitleAuthorOnly(i) ==
    /\ TitleOn(i) /\ TitleSim(i) = 80
    /\ AuthorOn(i)
    /\ ~YearOn(i)
    /\ SnippetOn(i) => SnippetSim(i) = 0

ScoredReturn ==
    /\ pc = "returned"
    /\ CurRef.search_results # None
    /\ "results" \in DOMAIN CurRef.search_results
    /\ CurRef.search_results.results # << >>

\* C11: when the search gives at least one result, best_match is one of the
\* scored results, no result scores higher, no result of a smaller rank
\* scores as much, at most 5 results are scored, their ranks are 1..k in the
\* order of the provider, and best_match is set whatever the scores are.
C11_BestIsFirstMaximum ==
    /\ (pc = "returned" /\ found # << >>) => ScoredReturn
    /\ ScoredReturn =>
          LET rs == CurRef.search_results.results
              best == CurRef.search_results.best_match
          IN  /\ Len(rs) = Min(5, Len(found))
              /\ \A i \in 1..Len(rs) :
                     /\ rs[i].rank = i
                     /\ rs[i].url = found[i].url
              /\ best # None
              /\ \E i \in 1..Len(rs) : rs[i] = best
              /\ \A i \in 1..Len(rs) :
                     /\ rs[i].match_score <= best.match_score
                     /\ rs[i].match_score = best.match_score => best.rank <= i

\* six results, five scored, the best score shared by two of them
C11_Witness ==
    /\ ScoredReturn
    /\ Len(probes[1].content) = 6
    /\ Len(CurRef.search_results.results) = 5
    /\ CurRef.search_results.best_match.match_score > 0
    /\ \E i \in 1..5 :
          /\ i > CurRef.search_results.best_match.rank
          /\ CurRef.search_results.results[i].match_score
                = CurRef.search_results.best_match.match_score

\* C18: a page on which the matcher fails leaves its URL in accessible_urls
\* with a match result whose title_match and authors_found are 0, and the
\* URLs after it are still requested.
C18_MatchFailureIsLocal ==
    /\ \A i \in 1..Min(Len(gets), Len(probes)) :
          (/\ probes[i].kind = "response"
           /\ probes[i].status_code >= 200 /\ probes[i].status_code < 300
           /\ probes[i].content.unparsable) =>
             /\ IsIn(results.accessible_urls, gets[i])
             /\ \E k \in 1..Len(results.match_results) :
                    /\ results.match_results[k].url = gets[i]
                    /\ results.match_results[k].title_match = 0
                    /\ results.match_results[k].authors_found = 0
                    /\ results.match_results[k].author_matches = << >>
    /\ pc = "returned" /\ host = "api" /\ CurRef.urls # << >> =>
          /\ Len(gets) = Len(CurRef.urls)
          /\ CurRef.url_check_results = results

\* the first of two URLs answers with a page the matcher fails on
C18_Witness ==
    /\ pc = "returned"
    /\ Len(CurRef.urls) = 2
    /\ Len(probes) = 2
    /\ probes[1].kind = "response" /\ probes[1].status_code = 200
    /\ probes[1].content.unparsable
    /\ CurRef.title # ""
    /\ Len(CurRef.url_check_results.match_results) >= 1
    /\ CurRef.url_check_results.match_results[1].title_match = 0

(***************************************************************************)
(* Properties of parse_references and of the field extraction.             *)
(***************************************************************************)
\* the entries that became References in the parse under way
Parsed(i) == local_references[i]

\* 10. + at least four digits + / + a character that is not white space, at
\* position p of s
BareDoiAt(s, p) ==
    LET Digits(d2) == /\ d2 - (p + 3) + 1 >= DoiMinDigits
                      /\ At(s, d2 + 1) = "/"
                      /\ In(At(s, d2 + 2), NotCls(SpaceSet))
    IN  /\ StartsAt(s, p, "10.")
        /\ Digits(RunEnd(s, p + 3, Cls(DigitSet)))

ContainsDoi(s) == \E p \in 1..Len(s) : BareDoiAt(s, p)

\* C12: an entry that contains a DOI, with or without a "doi" label before
\* it, gets a non-empty doi that does not end in punctuation, and
\* "https://doi.org/" + doi is one of its urls.
C12_DoiExtracted ==
    \A i \in 1..Len(local_references) :
        ContainsDoi(Parsed(i).raw_text) =>
            /\ Parsed(i).doi # None
            /\ Parsed(i).doi[1] # ""
            /\ At(Parsed(i).doi[1], Len(Parsed(i).doi[1])) \notin { ".", ",", ";" }
            /\ IsIn(Parsed(i).urls, "https://doi.org/" \o Parsed(i).doi[1])

\* the literal URLs of an entry as they are kept: stripped of . , ; )
KeptLiterals(found_urls) ==
    [i \in 1..Len(found_urls) |-> StripRight(found_urls[i], { ".", ",", ";", ")" })]

FirstIndex(seq, x) == MinOf({ i \in 1..Len(seq) : seq[i] = x })

\* urls holds no string twice, holds every literal URL of the entry, in the
\* order in which the URLs first occur, and none of them ends in . , ; or )
UrlsKeptOnce(urls, literals) ==
    /\ \A i, j \in 1..Len(urls) : urls[i] = urls[j] => i = j
    /\ \A k \in 1..Len(literals) : IsIn(urls, literals[k])
    /\ \A i, j \in 1..Len(urls) :
          (i < j /\ IsIn(literals, urls[i]) /\ IsIn(literals, urls[j]) /\ i > 1) =>
              FirstIndex(literals, urls[i]) < FirstIndex(literals, urls[j])
    /\ \A i \in 1..Len(urls) : At(urls[i], Len(urls[i])) \notin { ".", ",", ";", ")" }

\* C13: after field extraction urls never holds two identical strings, a
\* URL that occurs several times in the entry (or that equals the URL made
\* from the DOI) is kept once, where it was first seen, and no kept URL ends
\* in . , ; or )
C13_UrlsDistinctAndClean ==
    \A i \in 1..Len(local_references) :
        UrlsKeptOnce(Parsed(i).urls, KeptLiterals(UrlsFrom(Parsed(i).raw_text, 1)))

\* the positions of the standalone tokens 19xx and 20xx of an entry
YearTokens(s) == { p \in 1..Len(s) : YearAt(s, p) }

\* the year the entry should get: its first such token, all four digits
FirstYearToken(s, tokens) ==
    IF tokens = {} THEN None ELSE << SubSeq(s, MinOf(tokens), MinOf(tokens) + 3) >>

\* C14: the year of an entry is its first standalone four-digit token 19xx
\* or 20xx, a string of four digits ("2020" for an entry whose first such
\* token is 2020), and it is unset when the entry has no such token.
C14_YearIsFirstToken ==
    \A i \in 1..Len(local_references) :
        Parsed(i).year = FirstYearToken(Parsed(i).raw_text, YearTokens(Parsed(i).raw_text))

\* what ref_patterns[k - 1] alone gives for the text being parsed
EntriesOf(k) ==
    IF re_search(k, arg_refs_text) THEN NumberedEntries(re_split(k, arg_refs_text))
    ELSE << >>

\* the entry starts with a marker of grammar k: [n], n. or (n)
StartsWithMarker(entry, k) ==
    LET Number(n2) ==
            /\ n2 >= (IF k = 2 THEN 1 ELSE 2)
            /\ At(entry, n2 + 1) = (IF k = 1 THEN "]" ELSE IF k = 2 THEN "." ELSE ")")
    IN  /\ k # 2 => At(entry, 1) = (IF k = 1 THEN "[" ELSE "(")
        /\ Number(RunEnd(entry, IF k = 2 THEN 1 ELSE 2, Cls(DigitSet)))

\* the segmentation is complete
Segmented == host = "parser" /\ pc = "p_create"

\* C15: the entries of a section come from exactly one numbering grammar,
\* the first of [n], n., (n) that gives an entry, in the order of the text
\* and without their markers, and "[1] A. [2] B. [3] C." is cut by the [n]
\* grammar into "A.", "B.", "C.".
C15_OneGrammar ==
    Segmented =>
        /\ grammar \in 1..3 =>
              /\ split_refs = EntriesOf(grammar)
              /\ \A k \in 1..(grammar - 1) : EntriesOf(k) = << >>
              /\ \A i \in 1..Len(split_refs) : ~StartsWithMarker(split_refs[i], grammar)
        /\ grammar = 4 => \A k \in 1..3 : EntriesOf(k) = << >>
        /\ arg_refs_text = "[1] A. [2] B. [3] C." =>
              grammar = 1 /\ split_refs = << "A.", "B.", "C." >>

RawTexts(references) == [i \in 1..Len(references) |-> references[i].raw_text]

\* the entries of more than 20 characters once trimmed, in their order
LongEntries(entries) == SelectSeq(entries, LAMBDA e : Len(Trim(e)) > 20)

\* C16: a segmented entry becomes a Reference if and only if its trimmed
\* length is greater than 20 (15 and 20 are dropped, 25 is kept), and the
\* References keep the order of their entries.
C16_KeptIffLonger ==
    /\ Segmented =>
          RawTexts(local_references) = LongEntries(SubSeq(split_refs, 1, entry_i - 1))
    /\ (host = "parser" /\ pc = "p_returned") =>
          RawTexts(self_references) = LongEntries(split_refs)

\* entries of 15, 25, 20 and 21 characters gave two References
C16_Witness ==
    /\ host = "parser" /\ pc = "p_returned"
    /\ Len(split_refs) = 4
    /\ Len(split_refs[1]) = 15 /\ Len(split_refs[2]) = 25
    /\ Len(split_refs[3]) = 20 /\ Len(split_refs[4]) = 21
    /\ RawTexts(self_references) = << split_refs[2], split_refs[4] >>

\* the candidates in the order in which they are found: the names of the
\* two author patterns, then the parts of the and/& split
StrippedParts(parts) == [i \in 1..Len(parts) |-> StripRight(Trim(parts[i]), { ",", "." })]

CandidatesIn(author_text) ==
    AuthorNames(author_text, 1, 1) \o AuthorNames(author_text, 1, 2)
        \o StrippedParts(AndSplit(author_text))

AuthorTextOf(t) == AuthorText(t.clean_text, t.title)

CandidatesOf(raw_text) == CandidatesIn(AuthorTextOf(TitleStep(raw_text)))

AtMostTenInOrder(authors, cands) ==
    /\ Len(authors) <= 10
    /\ \A a, b \in 1..Len(authors) : authors[a] = authors[b] => a = b
    /\ \A a \in 1..Len(authors) : IsIn(cands, authors[a])
    /\ \A a, b \in 1..Len(authors) :
          a < b => FirstIndex(cands, authors[a]) < FirstIndex(cands, authors[b])

\* C17: the authors of an entry are at most 10, no string is there twice,
\* and they stand in the order in which the candidates were found: the
\* matches of the name patterns first, then the parts of the and/& split.
C17_AuthorsBounded ==
    \A i \in 1..Len(local_references) :
        AtMostTenInOrder(Parsed(i).authors, CandidatesOf(Parsed(i).raw_text))

\* an entry with more than ten distinct candidates, cut to ten authors
C17_Witness ==
    \E i \in 1..Len(local_references) :
        /\ Len(Parsed(i).authors) = 10
        /\ Len(CandidatesOf(Parsed(i).raw_text)) > 10
        /\ Parsed(i).authors = SubSeq(CandidatesOf(Parsed(i).raw_text), 1, 10)

\* C19: every parse of the same section text, by the same extractor or by
\* a new one, returns the same sequence of References with the same
\* raw_text, authors, title, year, doi and urls: nothing of a run is left
\* in the next one.
C19_SameTextSameReferences ==
    /\ \A i, j \in 1..Len(parsed) : parsed[i] = parsed[j]
    /\ (host = "parser" /\ pc = "p_returned") => self_references = parsed[Len(parsed)]

\* a text that gives References has been parsed twice
C19_Witness ==
    /\ host = "parser" /\ pc = "p_returned"
    /\ Len(parsed) = 2
    /\ parsed[1] # << >>
    /\ parsed[2] = parsed[1]
    /\ self_references = parsed[2]

\* the trimmed clauses of clean_text that may be a title
TitleClauses(parts) ==
    { Trim(parts[i]) : i \in { j \in 1..Len(parts) : TitleLike(Trim(parts[j])) } }

\* title is a longest one of the clauses, and empty when there is none
IsLongestOf(title, clauses) ==
    IF clauses = {} THEN title = ""
    ELSE title \in clauses /\ \A c \in clauses : Len(c) <= Len(title)

LongestClauseTitle(t) ==
    ~t.quoted => IsLongestOf(t.title, TitleClauses(SplitClauses(t.clean_text)))

\* C20: without a quoted title, the title of an entry is the longest of its
\* comma- or period-delimited clauses of more than 30 characters that do
\* not look like initials, whichever of them comes first.
C20_FallbackIsLongest ==
    \A i \in 1..Len(local_references) :
        /\ Parsed(i).title = TitleStep(Parsed(i).raw_text).title
        /\ LongestClauseTitle(TitleStep(Parsed(i).raw_text))

(***************************************************************************)
(* Properties of the content matcher.                                      *)
(***************************************************************************)
\* the answer to the i-th request of the call is a page that was scored and
\* that carries citation_author tags
TaggedPage(i) ==
    /\ probes[i].kind = "response"
    /\ IsSuccess(probes[i].status_code)
    /\ ~probes[i].content.unparsable
    /\ probes[i].content.citation_author # << >>

\* no reference author is matched twice, so no more authors are found than
\* the reference has
EachAuthorOnce(m, ref) ==
    /\ m.authors_found <= Len(ref.authors)
    /\ \A a, b \in 1..Len(m.author_matches) :
          m.author_matches[a].reference = m.author_matches[b].reference => a = b

\* C21: on a page with citation_author tags every reference author is
\* matched at most once: authors_found is at most the number of reference
\* authors and author_matches does not name a reference author twice.
C21_EachAuthorMatchedOnce ==
    \A i \in 1..Min(Len(gets), Len(probes)) :
        TaggedPage(i) =>
            \A k \in 1..Len(results.match_results) :
                results.match_results[k].url = gets[i] =>
                    EachAuthorOnce(results.match_results[k], CurRef)

\* the i-th match result is the one of the i-th accessible URL
MatchesFollow(res) ==
    \A i \in 1..Len(res.match_results) :
        /\ i <= Len(res.accessible_urls)
        /\ res.match_results[i].url = res.accessible_urls[i]

\* no match result is recorded for a URL that is on inaccessible_urls
NoMatchForInaccessible(res) ==
    \A i \in 1..Len(res.match_results) : Entries(res, res.match_results[i].url) = {}

\* C22 as stated: at every point during and after check_reference,
\* match_results is as long as accessible_urls, the i-th match result is
\* the one of the i-th accessible URL, and no match result is recorded for
\* an inaccessible URL.
C22_AsStated ==
    /\ Len(results.match_results) = Len(results.accessible_urls)
    /\ MatchesFollow(results)
    /\ NoMatchForInaccessible(results)

\* C22: the same holds at the head of every iteration of the URL loop and
\* after the return; while the page of a 2xx response is being matched,
\* accessible_urls is ahead of match_results by that one URL.
C22_MatchPerAccessibleUrl ==
    /\ MatchesFollow(results)
    /\ NoMatchForInaccessible(results)
    /\ pc # "match" => Len(results.match_results) = Len(results.accessible_urls)
    /\ pc = "match" =>
          /\ Len(results.accessible_urls) = Len(results.match_results) + 1
          /\ results.accessible_urls[Len(results.accessible_urls)] = CurRef.urls[idx]
    /\ (pc = "returned" /\ host = "api") =>
          /\ CurRef.url_check_results = results
          /\ \A i \in 1..Len(CurRef.urls) :
                IsIn(results.accessible_urls, CurRef.urls[i])
                    <=> \E k \in 1..Len(results.match_results) :
                            results.match_results[k].url = CurRef.urls[i]

\* of two URLs the first was refused and the second was matched
C22_Witness ==
    /\ pc = "returned" /\ host = "api"
    /\ Len(CurRef.urls) = 2
    /\ Len(probes) = 2
    /\ probes[1].kind = "response" /\ probes[1].status_code = 404
    /\ probes[2].kind = "response" /\ probes[2].status_code = 200
    /\ CurRef.url_check_results.accessible_urls = << CurRef.urls[2] >>
    /\ Len(CurRef.url_check_results.match_results) = 1
    /\ CurRef.url_check_results.match_results[1].url = CurRef.urls[2]

(***************************************************************************)
(* The DOI that field extraction stores.                                   *)
(***************************************************************************)
\* the DOI that doi_pattern matched at position p of s, from its "10." to
\* the end of the match, without trailing punctuation
DoiIn(s, p) ==
    StripRight(SubSeq(s, RunEnd(s, p + 3, Cls(SpaceSet \cup { ":" })) + 1, DoiAt(s, p)),
               { ".", ",", ";" })

FirstDoiIn(s) == DoiIn(s, MinOf({ p \in 1..Len(s) : DoiAt(s, p) # 0 }))

\* C23: a doi that field extraction sets starts with "10.", the label and
\* its separator (a colon, white space or nothing) are not part of it, and
\* it is the DOI of the text up to trailing punctuation, whole, also when
\* the suffix of the DOI holds a colon.
C23_DoiStartsWithPrefix ==
    \A i \in 1..Len(local_references) :
        Parsed(i).doi # None =>
            /\ StartsAt(Parsed(i).doi[1], 1, "10.")
            /\ Parsed(i).doi[1] = FirstDoiIn(Parsed(i).raw_text)

(***************************************************************************)
(* The threads of app.py.  process_file starts one worker thread per job,  *)
(* which runs process_in_background; stream_logs runs generate() for the   *)
(* client that follows a job.  The threads share log_queues,               *)
(* processing_status and sys.stdout, and a thread can be pre-empted        *)
(* between any two statements.                                             *)
(***************************************************************************)
MaxMessages == 1

libvars == << cfgvars, jobvars, searchvars, netvars, parservars, pc, refs, cur, results,
             idx, gets, probes, posts, calls >>

\* a piece of progress text, with the job whose worker thread produced it
Message(job_id, text, n) == [job |-> job_id, text |-> text, n |-> n]

\* Queue.put
Put(qs, q, m) == [qs EXCEPT ![q] = Append(@, m)]

\* LogCapture.write / the write of the console; the text of the model is
\* never blank
Write(stream, m) ==
    /\ queues' = IF stream.kind = "LogCapture" THEN Put(queues, stream.log_queue, m)
                 ELSE queues
    /\ console' = console \cup { m }

\* processing_status[job_id].get('complete')
IsComplete(job_id) ==
    /\ job_id \in DOMAIN processing_status
    /\ "complete" \in DOMAIN processing_status[job_id]
    /\ processing_status[job_id].complete

\* status.get('complete') or status.get('error'); an error text is never empty
IsCompleteOrError(job_id) ==
    /\ job_id \in DOMAIN processing_status
    /\ \/ IsComplete(job_id)
       \/ "error" \in DOMAIN processing_status[job_id]

\* processing_status[job_id] = {'complete': False, 'started': True}; thread.start()
process_file(j) ==
    /\ worker_pc[j] = "idle"
    /\ processing_status' = (j :> [complete |-> FALSE, started |-> TRUE]) @@ processing_status
    /\ worker_pc' = [worker_pc EXCEPT ![j] = "l131"]
    /\ UNCHANGED << libvars, log_queues, queues, sys_stdout, old_stdout, log_queue, sent,
                    stream_pc, stream_queue, emitted, console >>

\* if job_id not in log_queues
worker_check_queue(j) ==
    /\ worker_pc[j] = "l131"
    /\ worker_pc' = [worker_pc EXCEPT ![j] = IF j \in DOMAIN log_queues THEN "l134" ELSE "l132"]
    /\ UNCHANGED << libvars, log_queues, processing_status, queues, sys_stdout, old_stdout,
                    log_queue, sent, stream_pc, stream_queue, emitted, console >>

\* log_queues[job_id] = queue.Queue()
worker_create_queue(j) ==
    /\ worker_pc[j] = "l132"
    /\ log_queues' = (j :> NewQueue(j, "worker")) @@ log_queues
    /\ worker_pc' = [worker_pc EXCEPT ![j] = "l134"]
    /\ UNCHANGED << libvars, processing_status, queues, sys_stdout, old_stdout, log_queue,
                    sent, stream_pc, stream_queue, emitted, console >>

\* log_queue = log_queues[job_id]
worker_get_queue(j) ==
    /\ worker_pc[j] = "l134"
    /\ log_queue' = [log_queue EXCEPT ![j] = log_queues[j]]
    /\ worker_pc' = [worker_pc EXCEPT ![j] = "l137"]
    /\ UNCHANGED << libvars, log_queues, processing_status, queues, sys_stdout, old_stdout,
                    sent, stream_pc, stream_queue, emitted, console >>

\* old_stdout = sys.stdout
save_stdout(j) ==
    /\ worker_pc[j] = "l137"
    /\ old_stdout' = [old_stdout EXCEPT ![j] = sys_stdout]
    /\ worker_pc' = [worker_pc EXCEPT ![j] = "l138"]
    /\ UNCHANGED << libvars, log_queues, processing_status, queues, sys_stdout, log_queue,
                    sent, stream_pc, stream_queue, emitted, console >>

\* sys.stdout = LogCapture(log_queue)
redirect_stdout(j) ==
    /\ worker_pc[j] = "l138"
    /\ sys_stdout' = LogCapture(log_queue[j])
    /\ worker_pc' = [worker_pc EXCEPT ![j] = "try"]
    /\ UNCHANGED << libvars, log_queues, processing_status, queues, old_stdout, log_queue,
                    sent, stream_pc, stream_queue, emitted, console >>

\* log_queue.put(...) of the try block
log_put(j) ==
    /\ worker_pc[j] = "try"
    /\ sent[j] < MaxMessages
    /\ queues' = Put(queues, log_queue[j], Message(j, "put", sent[j] + 1))
    /\ sent' = [sent EXCEPT ![j] = @ + 1]
    /\ UNCHANGED << libvars, log_queues, processing_status, sys_stdout, old_stdout, log_queue,
                    worker_pc, stream_pc, stream_queue, emitted, console >>

\* print(...) of the extractor, the validator or the report generator, called
\* by the try block: the text goes to whatever sys.stdout is at that moment
print_text(j) ==
    /\ worker_pc[j] = "try"
    /\ sent[j] < MaxMessages
    /\ Write(sys_stdout, Message(j, "print", sent[j] + 1))
    /\ sent' = [sent EXCEPT ![j] = @ + 1]
    /\ UNCHANGED << libvars, log_queues, processing_status, sys_stdout, old_stdout, log_queue,
                    worker_pc, stream_pc, stream_queue, emitted >>

\* if not refs_text / if not references: the error status, and return
job_fails(j) ==
    /\ worker_pc[j] = "try"
    /\ \E message \in { NoSectionError, NoReferencesError } :
          processing_status' = (j :> [complete |-> TRUE, error |-> message]) @@ processing_status
    /\ worker_pc' = [worker_pc EXCEPT ![j] = "l246"]
    /\ UNCHANGED << libvars, log_queues, queues, sys_stdout, old_stdout, log_queue, sent,
                    stream_pc, stream_queue, emitted, console >>

\* except Exception as e: log_queue.put(ERROR ...)
job_raises(j) ==
    /\ worker_pc[j] = "try"
    /\ queues' = Put(queues, log_queue[j], Message(j, "ERROR", 0))
    /\ worker_pc' = [worker_pc EXCEPT ![j] = "l242"]
    /\ UNCHANGED << libvars, log_queues, processing_status, sys_stdout, old_stdout,
                    log_queue, sent, stream_pc, stream_queue, emitted, console >>

\* processing_status[job_id] = {'complete': True, 'error': str(e)}
set_error(j) ==
    /\ worker_pc[j] = "l242"
    /\ processing_status' = (j :> [complete |-> TRUE, error |-> "str(e)"]) @@ processing_status
    /\ worker_pc' = [worker_pc EXCEPT ![j] = "l246"]
    /\ UNCHANGED << libvars, log_queues, queues, sys_stdout, old_stdout, log_queue, sent,
                    stream_pc, stream_queue, emitted, console >>

\* the reports are written: log_queue.put(DONE!)
put_done(j) ==
    /\ worker_pc[j] = "try"
    /\ queues' = Put(queues, log_queue[j], Message(j, "DONE!", 0))
    /\ worker_pc' = [worker_pc EXCEPT ![j] = "l232"]
    /\ UNCHANGED << libvars, log_queues, processing_status, sys_stdout, old_stdout,
                    log_queue, sent, stream_pc, stream_queue, emitted, console >>

\* processing_status[job_id] = {'complete': True, 'success': True, ...}
set_success(j) ==
    /\ worker_pc[j] = "l232"
    /\ processing_status' = (j :> [complete |-> TRUE, success |-> TRUE, job_id |-> j])
                                @@ processing_status
    /\ worker_pc' = [worker_pc EXCEPT ![j] = "l246"]
    /\ UNCHANGED << libvars, log_queues, queues, sys_stdout, old_stdout, log_queue, sent,
                    stream_pc, stream_queue, emitted, console >>

\* finally: sys.stdout = old_stdout; the thread ends
restore_stdout(j) ==
    /\ worker_pc[j] = "l246"
    /\ sys_stdout' = old_stdout[j]
    /\ worker_pc' = [worker_pc EXCEPT ![j] = "done"]
    /\ UNCHANGED << libvars, log_queues, processing_status, queues, old_stdout, log_queue,
                    sent, stream_pc, stream_queue, emitted, console >>

process_in_background(j) ==
    \/ worker_check_queue(j) \/ worker_create_queue(j) \/ worker_get_queue(j)
    \/ save_stdout(j) \/ redirect_stdout(j) \/ log_put(j) \/ print_text(j)
    \/ job_fails(j) \/ job_raises(j) \/ set_error(j) \/ put_done(j) \/ set_success(j)
    \/ restore_stdout(j)

\* GET /stream/<job_id>: the client starts to iterate generate()
stream_logs(j) ==
    /\ j \in Followed
    /\ stream_pc[j] = "idle"
    /\ stream_pc' = [stream_pc EXCEPT ![j] = "l99"]
    /\ UNCHANGED << libvars, log_queues, processing_status, queues, sys_stdout, old_stdout,
                    log_queue, worker_pc, sent, stream_queue, emitted, console >>

\* if job_id not in log_queues
stream_check_queue(j) ==
    /\ stream_pc[j] = "l99"
    /\ stream_pc' = [stream_pc EXCEPT ![j] = IF j \in DOMAIN log_queues THEN "l102" ELSE "l100"]
    /\ UNCHANGED << libvars, log_queues, processing_status, queues, sys_stdout, old_stdout,
                    log_queue, worker_pc, sent, stream_queue, emitted, console >>

\* log_queues[job_id] = queue.Queue()
stream_create_queue(j) ==
    /\ stream_pc[j] = "l100"
    /\ log_queues' = (j :> NewQueue(j, "stream")) @@ log_queues
    /\ stream_pc' = [stream_pc EXCEPT ![j] = "l102"]
    /\ UNCHANGED << libvars, processing_status, queues, sys_stdout, old_stdout, log_queue,
                    worker_pc, sent, stream_queue, emitted, console >>

\* log_queue = log_queues[job_id]
stream_get_queue(j) ==
    /\ stream_pc[j] = "l102"
    /\ stream_queue' = [stream_queue EXCEPT ![j] = log_queues[j]]
    /\ stream_pc' = [stream_pc EXCEPT ![j] = "l106"]
    /\ UNCHANGED << libvars, log_queues, processing_status, queues, sys_stdout, old_stdout,
                    log_queue, worker_pc, sent, emitted, console >>

\* message = log_queue.get(timeout=1); yield the log event
stream_message(j) ==
    /\ stream_pc[j] = "l106"
    /\ queues[stream_queue[j]] # << >>
    /\ emitted' = [emitted EXCEPT ![j] = Append(@, [log |-> Head(queues[stream_queue[j]])])]
    /\ queues' = [queues EXCEPT ![stream_queue[j]] = Tail(@)]
    /\ stream_pc' = [stream_pc EXCEPT ![j] = "l110"]
    /\ UNCHANGED << libvars, log_queues, processing_status, sys_stdout, old_stdout, log_queue,
                    worker_pc, sent, stream_queue, console >>

\* except queue.Empty: the queue stayed empty for a second; yield a keepalive
stream_keepalive(j) ==
    /\ stream_pc[j] = "l106"
    /\ queues[stream_queue[j]] = << >>
    /\ stream_pc' = [stream_pc EXCEPT ![j] = "l119"]
    /\ UNCHANGED << libvars, log_queues, processing_status, queues, sys_stdout, old_stdout,
                    log_queue, worker_pc, sent, stream_queue, emitted, console >>

\* the end of an iteration of the while loop: the complete event and break,
\* or the next iteration
stream_check_status(j) ==
    /\ \/ stream_pc[j] = "l110" /\ IsComplete(j)
       \/ stream_pc[j] = "l119" /\ IsCompleteOrError(j)
    /\ emitted' = [emitted EXCEPT ![j] =
                      Append(@, [complete |-> TRUE, status |-> processing_status[j]])]
    /\ stream_pc' = [stream_pc EXCEPT ![j] = "ended"]
    /\ UNCHANGED << libvars, log_queues, processing_status, queues, sys_stdout, old_stdout,
                    log_queue, worker_pc, sent, stream_queue, console >>

stream_continue(j) ==
    /\ \/ stream_pc[j] = "l110" /\ ~IsComplete(j)
       \/ stream_pc[j] = "l119" /\ ~IsCompleteOrError(j)
    /\ stream_pc' = [stream_pc EXCEPT ![j] = "l106"]
    /\ UNCHANGED << libvars, log_queues, processing_status, queues, sys_stdout, old_stdout,
                    log_queue, worker_pc, sent, stream_queue, emitted, console >>

generate(j) ==
    \/ stream_check_queue(j) \/ stream_create_queue(j) \/ stream_get_queue(j)
    \/ stream_message(j) \/ stream_keepalive(j) \/ stream_check_status(j)
    \/ stream_continue(j)

\* the server at rest: no job is being processed by this model's single-job
\* variables
InitApp ==
    /\ host = "app"
    /\ pc = "served"
    /\ doc = NoDoc
    /\ enable_search = FALSE
    /\ delay = 1
    /\ no_validate = FALSE
    /\ refs = << >>
    /\ status = << >>
    /\ InitLocals
    /\ InitParser({ "" })

NextApp ==
    \E j \in Jobs :
        \/ process_file(j) \/ process_in_background(j)
        \/ stream_logs(j) \/ generate(j)

SpecApp == InitApp /\ [][NextApp]_vars

(***************************************************************************)
(* Properties of the threads of app.py.                                    *)
(***************************************************************************)
\* every message held by a job's Queue objects, or sent to the client that
\* follows the job, was produced by the worker thread of that job
DeliveredToOwnJob ==
    /\ \A q \in QueueObjects : \A k \in 1..Len(queues[q]) : queues[q][k].job = q.job
    /\ \A j \in Jobs : \A k \in 1..Len(emitted[j]) :
          "log" \in DOMAIN emitted[j][k] => emitted[j][k].log.job = j

\* no worker thread is running
AllJobsFinished == \A j \in Jobs : worker_pc[j] \in { "idle", "done" }

StdoutRestored == AllJobsFinished => sys_stdout = Console

\* C24: jobs processed at the same time share nothing through the redirection
\* of sys.stdout: the text printed while a job runs reaches only the log queue
\* of that job, however the save, redirect and restore steps of the workers
\* interleave, and once every job has finished sys.stdout is the stream that
\* was installed before the first job started.
C24_StdoutNotShared == DeliveredToOwnJob /\ StdoutRestored

\* the stream of job j has sent its complete event
CompleteSent(j) ==
    \E k \in 1..Len(emitted[j]) : "complete" \in DOMAIN emitted[j][k]

\* the complete event is the last event of the stream and the only one of its
\* kind, and the generator has ended
CompleteEndsStream(j) ==
    /\ stream_pc[j] = "ended"
    /\ \A k \in 1..Len(emitted[j]) :
          "complete" \in DOMAIN emitted[j][k] <=> k = Len(emitted[j])

\* the log queue of job j, the one its worker puts messages on, still holds a
\* message of the worker: the stream has not sent it
Unsent(j) ==
    { k \in 1..Len(queues[log_queue[j]]) : queues[log_queue[j]][k].job = j }

\* C26: every message put on the log queue of a job before its status becomes
\* complete is sent to the client before the complete event of the stream;
\* the stream sends exactly one complete event and then ends, whatever the
\* interleaving of the worker and the stream, also when the stream is opened
\* before the worker creates the queue.  (The worker of a job puts all its
\* messages before it sets the status.)
C26_LogsBeforeComplete ==
    \A j \in Followed :
        CompleteSent(j) =>
            /\ CompleteEndsStream(j)
            /\ log_queue[j] # None => Unsent(j) = {}

(***************************************************************************)
(* Progress of a job of process_in_background.                             *)
(***************************************************************************)
\* the job of the web front end has its terminal status
JobComplete == host = "app" /\ status.complete

\* a terminal record: the success with its summary, or an error, never both
TerminalRecord(st) ==
    /\ st.complete
    /\ ("success" \in DOMAIN st) # ("error" \in DOMAIN st)
    /\ "success" \in DOMAIN st => (st.success /\ "summary" \in DOMAIN st)
    /\ "started" \notin DOMAIN st

====
